---- MODULE Spec2Model ----
(***************************************************************************)
(* clickuphelper: the custom-field typing and filtering core.              *)
(*                                                                         *)
(* Python values are records tagged by their type in field k:              *)
(*   none | int (i) | float (n/d, d > 0) | str (s: sequence of characters) *)
(*   list (l: sequence of values) | dict (x: the JSON object)              *)
(*   dt (a datetime, n/d days after the epoch)                             *)
(* A call's outcome is [o |-> "ok", v |-> value] or                        *)
(* [o |-> "raise", e |-> exception class name].                            *)
(***************************************************************************)
EXTENDS Integers, Sequences, FiniteSets, TLC

VARIABLES
    pc,         \* "idle" | "building" (inside Tasks.__init__) | "built" | "task"
    tasks,      \* Tasks.tasks: a dict, identifier -> Task object
    task_ids,   \* Tasks.task_ids
    page,       \* query["page"] of Tasks.__init__
    task,       \* a Task object constructed on its own, or NoTask
    coll_include_subtasks,  \* Tasks.include_subtasks
    fetches,    \* single-task GET requests sent by the last public call
    call,       \* the last public call: its name and arguments
    result,     \* the outcome of the last public call
    posted,     \* the payload of the POST sent by the last public call
    remote,     \* the record the remote holds for the Task under test
    requests,   \* the GET requests of the last listing call, with their answers
    team_id     \* the module-level team_id

vars == <<pc, tasks, task_ids, page, coll_include_subtasks, task, fetches, call, result,
         posted, remote, requests, team_id>>

----------------------------------------------------------------------------
(* Bounds of the model.                                                    *)

MaxTasks == 2       \* task records fetched over all pages of one collection
MaxFilters == 2     \* predicates in one filter list

----------------------------------------------------------------------------
(* Python values.                                                          *)

PyNone == [k |-> "none"]
PyInt(i) == [k |-> "int", i |-> i]
PyFloat(num, den) == [k |-> "float", n |-> num, d |-> den]
PyStr(s) == [k |-> "str", s |-> s]
PyList(s) == [k |-> "list", l |-> s]
PyDict(x) == [k |-> "dict", x |-> x]
PyDt(num, den) == [k |-> "dt", n |-> num, d |-> den]

Ok(val) == [o |-> "ok", v |-> val]
Raise(exc) == [o |-> "raise", e |-> exc]
IsOk(r) == r.o = "ok"
Raises(r, exc) == r.o = "raise" /\ r.e = exc

IsNum(a) == a.k \in {"int", "float"}
Numer(a) == IF a.k = "int" THEN a.i ELSE a.n
Denom(a) == IF a.k = "int" THEN 1 ELSE a.d

Digits == <<"0", "1", "2", "3", "4", "5", "6", "7", "8", "9">>
IsDigit(c) == \E i \in 1..10 : Digits[i] = c
DigitVal(c) == (CHOOSE i \in 1..10 : Digits[i] = c) - 1

\* The characters of the model in code-point order; Ord is the rank.
Alphabet == <<"#", ".", "0", "1", "2", "3", "4", "5", "6", "7", "8", "9",
              "A", "B", "C", "H", "L", "P", "R", "[",
              "a", "b", "c", "d", "e", "h", "i", "k", "l", "o", "p", "r">>
Ord(c) == CHOOSE i \in 1..Len(Alphabet) : Alphabet[i] = c

\* str.lower() on one character
LowerChar(c) ==
    CASE c = "A" -> "a"
      [] c = "B" -> "b"
      [] c = "C" -> "c"
      [] c = "H" -> "h"
      [] c = "L" -> "l"
      [] c = "P" -> "p"
      [] c = "R" -> "r"
      [] OTHER -> c

\* a variant that keeps the case
Lower_keeps_case(s) == s

Lower(s) == [i \in 1..Len(s) |-> LowerChar(s[i])]

RECURSIVE DigitsVal(_)
DigitsVal(s) ==
    IF Len(s) = 0 THEN 0
    ELSE 10 * DigitsVal(SubSeq(s, 1, Len(s) - 1)) + DigitVal(s[Len(s)])

AllDigits(s) == Len(s) > 0 /\ \A i \in 1..Len(s) : IsDigit(s[i])

RECURSIVE Pow10(_)
Pow10(n) == IF n = 0 THEN 1 ELSE 10 * Pow10(n - 1)

\* int(x): an int is kept, a float is truncated toward zero, a str is parsed
\* as decimal digits; anything else is a TypeError.
PyIntOf(x) ==
    CASE x.k = "int" -> Ok(x)
      [] x.k = "float" ->
            Ok(PyInt(IF x.n >= 0 THEN x.n \div x.d ELSE -((-x.n) \div x.d)))
      [] x.k = "str" ->
            IF AllDigits(x.s) THEN Ok(PyInt(DigitsVal(x.s)))
            ELSE Raise("ValueError")
      [] OTHER -> Raise("TypeError")

\* float(x) on a str: digits, optionally "." and more digits.
DotAt(s) == {i \in 1..Len(s) : s[i] = "."}
PyFloatOf(x) ==
    CASE x.k = "int" -> Ok(PyFloat(x.i, 1))
      [] x.k = "float" -> Ok(x)
      [] x.k = "str" ->
            IF AllDigits(x.s) THEN Ok(PyFloat(DigitsVal(x.s), 1))
            ELSE IF Cardinality(DotAt(x.s)) = 1
                 THEN LET p == CHOOSE i \in DotAt(x.s) : TRUE
                          whole == SubSeq(x.s, 1, p - 1)
                          frac == SubSeq(x.s, p + 1, Len(x.s))
                          digits == [j \in 1..Len(x.s) |-> j = p \/ IsDigit(x.s[j])]
                      IN  IF Len(x.s) > 1 /\ \A j \in 1..Len(x.s) : digits[j]
                          THEN Ok(PyFloat(DigitsVal(whole) * Pow10(Len(frac))
                                          + DigitsVal(frac), Pow10(Len(frac))))
                          ELSE Raise("ValueError")
                 ELSE Raise("ValueError")
      [] OTHER -> Raise("TypeError")

\* a == b
RECURSIVE PyEq(_, _)
PyEq(a, b) ==
    CASE IsNum(a) /\ IsNum(b) -> Numer(a) * Denom(b) = Numer(b) * Denom(a)
      [] a.k = "none" /\ b.k = "none" -> TRUE
      [] a.k = "list" /\ b.k = "list" ->
            /\ Len(a.l) = Len(b.l)
            /\ \A i \in 1..Len(a.l) : PyEq(a.l[i], b.l[i])
      [] a.k = "dt" /\ b.k = "dt" -> a.n * b.d = b.n * a.d
      [] a.k = "str" /\ b.k = "str" -> a.s = b.s
      [] a.k = "dict" /\ b.k = "dict" -> a.x = b.x
      [] OTHER -> FALSE

\* a variant that looks at the first element only
PyInList_first_only(x, xs) == Len(xs) > 0 /\ PyEq(xs[1], x)

\* x in xs, for a list xs
PyInList(x, xs) == \E i \in 1..Len(xs) : PyEq(xs[i], x)

\* lexicographic a < b on two character sequences
RECURSIVE StrLt(_, _)
StrLt(s, t) ==
    IF Len(t) = 0 THEN FALSE
    ELSE IF Len(s) = 0 THEN TRUE
    ELSE IF s[1] # t[1] THEN Ord(s[1]) < Ord(t[1])
    ELSE StrLt(Tail(s), Tail(t))

\* a < b: an outcome, TypeError when the two are not order-comparable
RECURSIVE PyLt(_, _)
PyLt(a, b) ==
    CASE IsNum(a) /\ IsNum(b) -> Ok(Numer(a) * Denom(b) < Numer(b) * Denom(a))
      [] a.k = "str" /\ b.k = "str" -> Ok(StrLt(a.s, b.s))
      [] a.k = "dt" /\ b.k = "dt" -> Ok(a.n * b.d < b.n * a.d)
      [] a.k = "list" /\ b.k = "list" ->
            LET diff == {i \in 1..Len(a.l) : i <= Len(b.l) /\ ~PyEq(a.l[i], b.l[i])}
            IN  IF diff = {} THEN Ok(Len(a.l) < Len(b.l))
                ELSE LET first == CHOOSE j \in diff : \A m \in diff : j <= m
                     IN  PyLt(a.l[first], b.l[first])
      [] OTHER -> Raise("TypeError")

\* the four ordering operators of Python, from < and ==
CompareFrom(op, lt, gt, eq) ==
    IF ~IsOk(lt) THEN lt
    ELSE CASE op = "lt" -> lt
           [] op = "gt" -> gt
           [] op = "lte" -> Ok(lt.v \/ eq)
           [] op = "gte" -> Ok(gt.v \/ eq)

PyCompare(op, a, b) == CompareFrom(op, PyLt(a, b), PyLt(b, a), PyEq(a, b))

\* s occurs in t at position p
OccursAt(s, t, p) == p + Len(s) - 1 <= Len(t) /\ SubSeq(t, p, p + Len(s) - 1) = s
IsSubstring(s, t) == \E p \in 1..(Len(t) + 1) : OccursAt(s, t, p)
IsPrefix(s, t) == OccursAt(s, t, 1)

----------------------------------------------------------------------------
(* Raw records of the remote API.                                          *)
(* A custom-field item is [name, type, value, options]; value is Absent    *)
(* when the item has no "value" key. A task record is [id, name, status,   *)
(* tags, custom_fields, has_subtasks, subtasks]; has_subtasks says whether *)
(* the record has a "subtasks" key.                                        *)

Absent == [k |-> "absent"]

Field(name, type, value, options) ==
    [name |-> name, type |-> type, value |-> value, options |-> options]

RawTask(id, name, status, tags, fields, has_subtasks, subtasks) ==
    [id |-> id, name |-> name, status |-> status, tags |-> tags,
     custom_fields |-> fields, has_subtasks |-> has_subtasks,
     subtasks |-> subtasks]

\* field["value"]: KeyError when the key is missing
FieldValue(field) ==
    IF field.value.k = "absent" THEN Raise("KeyError") ELSE Ok(field.value)

\* datetime.datetime.fromtimestamp(ts / 1000, UTC).year == 1970, with
\* timestamps counted in days instead of milliseconds (TLC's integers have
\* 32 bits): 1970 is days 0 to 364.
DaysIn1970 == 365
YearIs1970(num, den) == 0 <= num /\ num < DaysIn1970 * den

\* a variant that checks the year whatever the flag
DtOfFloat_always_checks(f, except_if_year_1970) ==
    IF ~IsOk(f) THEN f
    ELSE IF ~IsNum(f.v) THEN Raise("TypeError")
    ELSE IF YearIs1970(Numer(f.v), Denom(f.v)) THEN Raise("ValueError")
    ELSE Ok(PyDt(Numer(f.v), Denom(f.v)))

\* ts_ms_to_dt after its float(ts): f is the outcome of the conversion
DtOfFloat(f, except_if_year_1970) ==
    IF ~IsOk(f) THEN f
    ELSE IF ~IsNum(f.v) THEN Raise("TypeError")
    ELSE IF except_if_year_1970 /\ YearIs1970(Numer(f.v), Denom(f.v))
         THEN Raise("ValueError")
    ELSE Ok(PyDt(Numer(f.v), Denom(f.v)))

ts_ms_to_dt(ts, except_if_year_1970) ==
    DtOfFloat(IF ts.k = "str" THEN PyFloatOf(ts) ELSE Ok(ts), except_if_year_1970)

\* seq[index] of Python: negative indexes count from the end
PyIndex(seq, index) ==
    IF index.k # "int" THEN Raise("TypeError")
    ELSE IF 0 <= index.i /\ index.i < Len(seq) THEN Ok(seq[index.i + 1])
    ELSE IF -Len(seq) <= index.i /\ index.i < 0 THEN Ok(seq[Len(seq) + index.i + 1])
    ELSE Raise("IndexError")

\* {option["id"]: option["label"] for option in options}[value_id]:
\* the last option with that id
LabelOf(options, value_id) ==
    LET hits == {i \in 1..Len(options) : PyEq(options[i].id, value_id)}
    IN  IF hits = {} THEN Raise("KeyError")
        ELSE Ok(options[CHOOSE i \in hits : \A j \in hits : j <= i].label)

\* a variant that walks the options, not the raw ids
LabelsOf_option_order(options, value_ids) ==
    LET keep == SelectSeq(options, LAMBDA o :
                    \E i \in 1..Len(value_ids) : PyEq(o.id, value_ids[i]))
    IN  [i \in 1..Len(keep) |-> keep[i].label]

RECURSIVE LabelsOf(_, _)
LabelsOf(options, value_ids) ==
    IF Len(value_ids) = 0 THEN <<>>
    ELSE LET l == LabelOf(options, value_ids[1])
         IN  (IF IsOk(l) THEN <<l.v>> ELSE <<>>)
             \o LabelsOf(options, Tail(value_ids))

\* The body of the try block of Task.get_field: the value of a field item
\* by its type, or the exception it raises.
\* a variant that tries float first
IntElseFloat_float_first(as_int, as_float) ==
    IF Raises(as_float, "ValueError")
    THEN IF Raises(as_int, "ValueError") THEN Raise("ValueError") ELSE as_int
    ELSE as_float

\* try: int(value); except ValueError: try: float(value); except
\* ValueError: raise ValueError, given the outcomes of the two conversions
IntElseFloat(as_int, as_float) ==
    IF Raises(as_int, "ValueError")
    THEN IF Raises(as_float, "ValueError") THEN Raise("ValueError") ELSE as_float
    ELSE as_int

NumberValue(raw) == IntElseFloat(PyIntOf(raw), PyFloatOf(raw))

\* ...["name"] of the option found
OptionName(opt) == IF IsOk(opt) THEN Ok(opt.v.name) ELSE opt

DropDownValue(field, raw) == OptionName(PyIndex(field.options, raw))

LabelsValue(field, raw) ==
    IF raw.k # "list" THEN Raise("TypeError")
    ELSE Ok(PyList(LabelsOf(field.options, raw.l)))

\* a variant that unpacks the first element of every non-empty list
TasksValue_first(raw) ==
    IF raw.k # "list" THEN Raise("TypeError")
    ELSE IF Len(raw.l) >= 1 THEN Ok(raw.l[1]) ELSE Ok(raw)

TasksValue(raw) ==
    IF raw.k # "list" THEN Raise("TypeError")
    ELSE IF Len(raw.l) = 1 THEN Ok(raw.l[1]) ELSE Ok(raw)

FieldTypes ==
    {"number", "drop_down", "labels", "url", "text", "tasks", "date",
     "attachment", "short_text"}

\* the if/elif chain on the type t, raw being the outcome of field["value"]
NormalizeRaw(field, t, raw) ==
    IF t \notin FieldTypes THEN Raise("NotImplementedError")
    ELSE IF ~IsOk(raw) THEN raw
    ELSE CASE t = "number" -> NumberValue(raw.v)
           [] t = "drop_down" -> DropDownValue(field, raw.v)
           [] t = "labels" -> LabelsValue(field, raw.v)
           [] t = "tasks" -> TasksValue(raw.v)
           [] t = "date" -> ts_ms_to_dt(raw.v, TRUE)
           [] OTHER -> raw

NormalizeField(field) == NormalizeRaw(field, field.type, FieldValue(field))

----------------------------------------------------------------------------
(* class Task                                                              *)

FieldNamesOf(raw_fields) == {raw_fields[i].name : i \in 1..Len(raw_fields)}

\* {item["name"]: item for item in task["custom_fields"]}: the last item
\* of a name wins
CustomFields(raw_fields) ==
    [n \in FieldNamesOf(raw_fields) |->
        raw_fields[CHOOSE i \in 1..Len(raw_fields) :
                      /\ raw_fields[i].name = n
                      /\ \A j \in 1..Len(raw_fields) :
                            raw_fields[j].name = n => j <= i]]

\* Task.get_field_obj
get_field_obj(t, name) ==
    IF name \in DOMAIN t.custom_fields THEN Ok(t.custom_fields[name])
    ELSE Raise("MissingCustomField")

\* a variant of the except KeyError clause that ignores the policy
OnKeyError_always_raises(t, v) ==
    IF Raises(v, "KeyError") THEN Raise("MissingCustomFieldValue") ELSE v

\* the except KeyError clause of Task.get_field, v being the outcome of
\* the try block
OnKeyError(t, v) ==
    IF Raises(v, "KeyError")
    THEN IF t.except_missing_cf_value
         THEN Raise("MissingCustomFieldValue")
         ELSE Ok(PyNone)
    ELSE v

\* Task.get_field after its call of get_field_obj
FieldOf(t, field) ==
    IF ~IsOk(field) THEN field ELSE OnKeyError(t, NormalizeField(field.v))

\* Task.get_field
get_field(t, name) == FieldOf(t, get_field_obj(t, name))

\* The remote answers GET /task/{id} with the stored record, and with its
\* "subtasks" key only when the query asks for subtasks.
StripSubtasks(raw) == [raw EXCEPT !.has_subtasks = FALSE, !.subtasks = <<>>]

\* task_id.replace('#', '')
StripHash(s) == SelectSeq(s, LAMBDA c : c # "#")

\* The attributes Task.reinitialize sets from the record `raw` (creator and
\* the two timestamps are left out: no filter reads them).
TaskObject(id, include_subtasks, except_missing_cf_value, raw_task, raw) ==
    [id |-> id,
     include_subtasks |-> include_subtasks,
     except_missing_cf_value |-> except_missing_cf_value,
     raw_task |-> raw_task,
     task |-> raw,
     name |-> raw.name,
     status |-> raw.status,
     custom_fields |-> CustomFields(raw.custom_fields)]

\* Task.reinitialize, given the answer `fetched` of a GET of the id (PyNone
\* when the remote has no such task, PyDict(record) otherwise). raw_task is
\* PyNone or PyDict(record). out is the Task object or the exception, sent
\* the number of requests made.
reinitialize(task_id, include_subtasks, except_missing_cf_value, raw_task, fetched) ==
    IF raw_task.k # "none"
    THEN [out |-> Ok(TaskObject(task_id, include_subtasks,
                                except_missing_cf_value, raw_task, raw_task.x)),
          sent |-> 0]
    ELSE IF task_id.k = "str"
    THEN IF fetched.k = "none"
         THEN [out |-> Raise("Exception"), sent |-> 1]
         ELSE [out |-> Ok(TaskObject(task_id, include_subtasks,
                                     except_missing_cf_value, raw_task,
                                     IF include_subtasks THEN fetched.x
                                     ELSE StripSubtasks(fetched.x))),
               sent |-> 1]
    ELSE IF task_id.k = "dict"
    THEN IF include_subtasks
         THEN [out |-> Raise("NotImplementedError"), sent |-> 0]
         ELSE [out |-> Ok(TaskObject(task_id, include_subtasks,
                                     except_missing_cf_value, raw_task,
                                     task_id.x)),
               sent |-> 0]
    ELSE [out |-> Raise("NotImplementedError"), sent |-> 0]

\* Task.__init__
TaskNew(task_id, include_subtasks, except_missing_cf_value, raw_task, fetched) ==
    reinitialize(IF task_id.k = "str" THEN PyStr(StripHash(task_id.s)) ELSE task_id,
                 include_subtasks, except_missing_cf_value, raw_task, fetched)

----------------------------------------------------------------------------
(* Filter predicates and their evaluation.                                 *)

\* class CustomFieldFilter; operator is the value of a FilterOperator
CustomFieldFilter(field_name, operator, value) ==
    [field_name |-> field_name, operator |-> operator, value |-> value]

FilterOperator ==
    {"eq", "ne", "gt", "gte", "lt", "lte", "contains", "starts_with",
     "regex", "in", "is_set", "is_not_set"}

\* re.search(pattern, text) for the patterns of the model: a pattern with
\* an unclosed "[" does not compile (re.error); in any other pattern "."
\* matches any character and every other character matches itself.
PatternMatchesAt(pat, text, p) ==
    /\ p + Len(pat) - 1 <= Len(text)
    /\ \A i \in 1..Len(pat) : pat[i] = "." \/ pat[i] = text[p + i - 1]

re_search(pat, text) ==
    IF pat.k # "str" THEN Raise("TypeError")
    ELSE IF \E i \in 1..Len(pat.s) : pat.s[i] = "[" THEN Raise("re.error")
    ELSE Ok(\E p \in 1..(Len(text.s) + 1) : PatternMatchesAt(pat.s, text.s, p))

\* a variant whose except clause catches nothing
Except_catches_nothing(exc, r) == r

\* try: return <r>; except <exc>: return False
Except(exc, r) == IF Raises(r, exc) THEN Ok(FALSE) ELSE r

\* The operator-specific comparison that both evaluators make once the
\* field's value is known (the same code in Tasks._evaluate_filter and
\* Task._evaluate_subtask_filter).
ApplyOperator(operator_type, task_value, filter_value) ==
    CASE operator_type = "eq" -> Ok(PyEq(task_value, filter_value))
      [] operator_type = "ne" -> Ok(~PyEq(task_value, filter_value))
      [] operator_type \in {"gt", "gte", "lt", "lte"} ->
            Except("TypeError", PyCompare(operator_type, task_value, filter_value))
      [] operator_type = "contains" ->
            IF task_value.k = "str"
            THEN IF filter_value.k # "str" THEN Raise("AttributeError")
                 ELSE Ok(IsSubstring(Lower(filter_value.s), Lower(task_value.s)))
            ELSE Ok(FALSE)
      [] operator_type = "starts_with" ->
            IF task_value.k = "str"
            THEN IF filter_value.k # "str" THEN Raise("AttributeError")
                 ELSE Ok(IsPrefix(Lower(filter_value.s), Lower(task_value.s)))
            ELSE Ok(FALSE)
      [] operator_type = "regex" ->
            IF task_value.k = "str"
            THEN Except("re.error", re_search(filter_value, task_value))
            ELSE Ok(FALSE)
      [] operator_type = "in" ->
            IF task_value.k = "list"
            THEN IF filter_value.k = "list"
                 THEN Ok(\E i \in 1..Len(task_value.l) :
                            PyInList(task_value.l[i], filter_value.l))
                 ELSE Ok(PyInList(filter_value, task_value.l))
            ELSE IF filter_value.k = "list"
                 THEN Ok(PyInList(task_value, filter_value.l))
                 ELSE Ok(PyEq(task_value, filter_value))
      [] OTHER -> Ok(FALSE)

\* a variant of _evaluate_filter whose comparison operators let
\* MissingCustomField escape, as its IS_SET branch does
filter_outcome_field_escapes(got, filter_obj) ==
    IF filter_obj.operator = "is_set"
    THEN IF IsOk(got) THEN Ok(TRUE)
         ELSE IF Raises(got, "MissingCustomFieldValue") THEN Ok(FALSE)
         ELSE got
    ELSE IF filter_obj.operator = "is_not_set"
    THEN IF IsOk(got) THEN Ok(FALSE)
         ELSE IF Raises(got, "MissingCustomFieldValue") THEN Ok(TRUE)
         ELSE got
    ELSE IF Raises(got, "MissingCustomFieldValue") THEN Ok(FALSE)
    ELSE IF ~IsOk(got) THEN got
    ELSE ApplyOperator(filter_obj.operator, got.v, filter_obj.value)

\* Tasks._evaluate_filter, `got` being the outcome of its call
\* task.get_field(field_name)
filter_outcome(got, filter_obj) ==
    IF filter_obj.operator = "is_set"
    THEN IF IsOk(got) THEN Ok(TRUE)
         ELSE IF Raises(got, "MissingCustomFieldValue") THEN Ok(FALSE)
         ELSE got
    ELSE IF filter_obj.operator = "is_not_set"
    THEN IF IsOk(got) THEN Ok(FALSE)
         ELSE IF Raises(got, "MissingCustomFieldValue") THEN Ok(TRUE)
         ELSE got
    ELSE IF Raises(got, "MissingCustomFieldValue") THEN Ok(FALSE)
    ELSE IF Raises(got, "MissingCustomField") THEN Ok(FALSE)
    ELSE IF ~IsOk(got) THEN got
    ELSE ApplyOperator(filter_obj.operator, got.v, filter_obj.value)

\* Tasks._evaluate_filter
evaluate_filter(t, filter_obj) ==
    filter_outcome(get_field(t, filter_obj.field_name), filter_obj)

\* Task._evaluate_subtask_filter
\* except (MissingCustomFieldValue, MissingCustomField)
IsMissing(got) ==
    Raises(got, "MissingCustomFieldValue") \/ Raises(got, "MissingCustomField")

\* Task._evaluate_subtask_filter, `got` being the outcome of its call
\* subtask.get_field(field_name)
subtask_filter_outcome(got, filter_obj) ==
    IF filter_obj.operator = "is_set"
    THEN IF IsOk(got) THEN Ok(TRUE)
         ELSE IF IsMissing(got) THEN Ok(FALSE)
         ELSE got
    ELSE IF filter_obj.operator = "is_not_set"
    THEN IF IsOk(got) THEN Ok(FALSE)
         ELSE IF IsMissing(got) THEN Ok(TRUE)
         ELSE got
    ELSE IF IsMissing(got) THEN Ok(FALSE)
    ELSE IF ~IsOk(got) THEN got
    ELSE ApplyOperator(filter_obj.operator, got.v, filter_obj.value)

\* Task._evaluate_subtask_filter
evaluate_subtask_filter(subtask, filter_obj) ==
    subtask_filter_outcome(get_field(subtask, filter_obj.field_name), filter_obj)

----------------------------------------------------------------------------
(* Python dicts keep their keys in insertion order: a dict is a sequence   *)
(* of [key, val] entries with distinct keys.                               *)

DictKeys(d) == [i \in 1..Len(d) |-> d[i].key]
DictHas(d, key) == \E i \in 1..Len(d) : d[i].key = key
DictGet(d, key) == d[CHOOSE i \in 1..Len(d) : d[i].key = key].val
\* d[key] = val
DictSet(d, key, val) ==
    IF DictHas(d, key)
    THEN [i \in 1..Len(d) |-> IF d[i].key = key THEN [key |-> key, val |-> val]
                              ELSE d[i]]
    ELSE Append(d, [key |-> key, val |-> val])

----------------------------------------------------------------------------
(* class Tasks: the filters over the collection `coll` (Tasks.tasks).      *)

\* the loop over filters of filter_by_custom_fields: Ok(all match) or the
\* exception of the first evaluation that raises
RECURSIVE all_filters_match(_, _)
\* the loop body once the first filter's outcome r is known
after_filter(r, t, rest) ==
    IF ~IsOk(r) THEN r
    ELSE IF ~r.v THEN Ok(FALSE)
    ELSE all_filters_match(t, rest)

all_filters_match(t, filters) ==
    IF Len(filters) = 0 THEN Ok(TRUE)
    ELSE after_filter(evaluate_filter(t, Head(filters)), t, Tail(filters))

\* the loop over the tasks of filter_by_custom_fields, from entry i on
RECURSIVE custom_fields_loop(_, _, _, _)
\* a variant of the loop body that stores the raw record, not the Task
after_task_stores_raw(m, coll, filters, i, ret) ==
    IF ~IsOk(m) THEN m
    ELSE custom_fields_loop(coll, filters, i + 1,
            IF m.v THEN DictSet(ret, coll[i].key, coll[i].val.task) ELSE ret)

\* the loop body once m, the outcome of task i's filters, is known
after_task(m, coll, filters, i, ret) ==
    IF ~IsOk(m) THEN m
    ELSE custom_fields_loop(coll, filters, i + 1,
            IF m.v THEN DictSet(ret, coll[i].key, coll[i].val) ELSE ret)

custom_fields_loop(coll, filters, i, ret) ==
    IF i > Len(coll) THEN Ok(ret)
    ELSE after_task(all_filters_match(coll[i].val, filters), coll, filters, i, ret)

\* Tasks.filter_by_custom_fields
filter_by_custom_fields(coll, filters) ==
    custom_fields_loop(coll, filters, 1, <<>>)

\* a variant of filter_by_statuses that looks at the first name only
filter_by_statuses_first_name(coll, status_names) ==
    LET keep == SelectSeq(coll, LAMBDA e :
                    Len(status_names) > 0 /\ PyEq(e.val.task.status, status_names[1]))
    IN  Ok(keep)

\* Tasks.filter_by_statuses, status_names a list
filter_by_statuses(coll, status_names) ==
    LET keep == SelectSeq(coll, LAMBDA e : PyInList(e.val.task.status, status_names))
    IN  Ok(keep)

\* any(tag_name in task_tag_names for tag_name in tag_names)
AnyTagMatches(tag_names, task_tag_names) ==
    \E i \in 1..Len(tag_names) : PyInList(tag_names[i], task_tag_names)

\* a variant without the isinstance test: a string is iterated by character
TagNameList_chars(tag_names) ==
    IF tag_names.k = "str"
    THEN [i \in 1..Len(tag_names.s) |-> PyStr(<<tag_names.s[i]>>)]
    ELSE tag_names.l

\* if isinstance(tag_names, str): tag_names = [tag_names]
TagNameList(tag_names) ==
    IF tag_names.k = "str" THEN <<tag_names>> ELSE tag_names.l

\* the loop over the subtasks of one matching parent in filter_by_tag
\* Task(subtask, raw_task=subtask): the Task object made for an embedded
\* subtask record
SubtaskObject(subtask_data) ==
    TaskNew(PyDict(subtask_data), FALSE, TRUE, PyDict(subtask_data), PyNone).out.v

RECURSIVE tag_subtasks_loop(_, _, _)
tag_subtasks_loop(subtasks, names, ret) ==
    IF Len(subtasks) = 0 THEN ret
    ELSE tag_subtasks_loop(Tail(subtasks), names,
            IF AnyTagMatches(names, Head(subtasks).tags)
            THEN DictSet(ret, Head(subtasks).id, SubtaskObject(Head(subtasks)))
            ELSE ret)

\* the subtask part of one turn of the loop of filter_by_tag: `full` is the
\* parent as fetched again with its subtasks
with_subtask_matches(full, names, ret) ==
    IF full.task.has_subtasks
    THEN tag_subtasks_loop(full.task.subtasks, names, ret)
    ELSE ret

\* the loop over the tasks of filter_by_tag, from entry i on; store(id) is
\* the remote's answer to a GET of the task. acc is [out, sent].
RECURSIVE tag_loop(_, _, _, _, _, _)
\* a matching parent with include_subtasks: `made` is the outcome of
\* Task(task_id, include_subtasks=True)
tag_refetched(made, coll, names, store, i, acc) ==
    IF ~IsOk(made.out)
    THEN [out |-> made.out, sent |-> acc.sent + made.sent]
    ELSE tag_loop(coll, names, TRUE, store, i + 1,
            [out |-> Ok(with_subtask_matches(made.out.v, names,
                            DictSet(acc.out.v, coll[i].key, made.out.v))),
             sent |-> acc.sent + made.sent])

tag_loop(coll, names, with_subtasks, store, i, acc) ==
    IF i > Len(coll) THEN acc
    ELSE IF ~AnyTagMatches(names, coll[i].val.task.tags)
    THEN tag_loop(coll, names, with_subtasks, store, i + 1, acc)
    ELSE IF ~with_subtasks
    THEN tag_loop(coll, names, with_subtasks, store, i + 1,
            [acc EXCEPT !.out = Ok(DictSet(acc.out.v, coll[i].key, coll[i].val))])
    ELSE tag_refetched(TaskNew(PyStr(coll[i].key), TRUE, TRUE, PyNone,
                               store[coll[i].key]),
                       coll, names, store, i, acc)

\* Tasks.filter_by_tag
filter_by_tag(coll, tag_names, with_subtasks, store) ==
    tag_loop(coll, TagNameList(tag_names), with_subtasks, store, 1,
             [out |-> Ok(<<>>), sent |-> 0])

\* Tasks.get_count
get_count(ids) == Len(ids)

----------------------------------------------------------------------------
(* Task.get_filtered_subtasks                                              *)

RECURSIVE all_subtask_filters_match(_, _)
\* the loop body once the first filter's outcome r is known
after_subtask_filter(r, subtask, rest) ==
    IF ~IsOk(r) THEN r
    ELSE IF ~r.v THEN Ok(FALSE)
    ELSE all_subtask_filters_match(subtask, rest)

all_subtask_filters_match(subtask, filters) ==
    IF Len(filters) = 0 THEN Ok(TRUE)
    ELSE after_subtask_filter(evaluate_subtask_filter(subtask, Head(filters)),
                              subtask, Tail(filters))

RECURSIVE subtasks_loop(_, _, _)
\* the loop body once m, the outcome of the first subtask's filters, is known
after_subtask(m, subtasks, filters, matching_subtasks) ==
    IF ~IsOk(m) THEN m
    ELSE subtasks_loop(Tail(subtasks), filters,
            IF m.v THEN Append(matching_subtasks, Head(subtasks))
            ELSE matching_subtasks)

subtasks_loop(subtasks, filters, matching_subtasks) ==
    IF Len(subtasks) = 0 THEN Ok(matching_subtasks)
    ELSE after_subtask(all_subtask_filters_match(SubtaskObject(Head(subtasks)), filters),
                       subtasks, filters, matching_subtasks)

\* a variant of get_filtered_subtasks without the include_subtasks test
get_filtered_subtasks_unguarded(t, filters) ==
    IF ~t.task.has_subtasks \/ Len(t.task.subtasks) = 0 THEN Ok(<<>>)
    ELSE subtasks_loop(t.task.subtasks, filters, <<>>)

\* Task.get_filtered_subtasks
get_filtered_subtasks(t, filters) ==
    IF ~t.include_subtasks THEN Raise("ValueError")
    ELSE IF ~t.task.has_subtasks \/ Len(t.task.subtasks) = 0 THEN Ok(<<>>)
    ELSE subtasks_loop(t.task.subtasks, filters, <<>>)

----------------------------------------------------------------------------
(* The records, identifiers and arguments of the model.                    *)

Urgent == PyStr(<<"u", "r", "g">>)
Later == PyStr(<<"l", "t", "r">>)
Open == PyStr(<<"o", "p", "e", "n">>)
Done == PyStr(<<"d", "o", "n", "e">>)
Review == PyStr(<<"r", "e", "v">>)

PrioOptions ==
    <<[name |-> PyStr(<<"a">>), orderindex |-> 0],
      [name |-> PyStr(<<"B", "c">>), orderindex |-> 1]>>

FScore(value) == Field("score", "number", value, <<>>)
FNote(value) == Field("note", "text", value, <<>>)
FPrio(value) == Field("prio", "drop_down", value, PrioOptions)

\* records of the list endpoint (no "subtasks" key)
Rec1 == RawTask(<<"t", "1">>, "one", Open, <<Urgent>>,
                <<FScore(PyStr(<<"5">>)), FNote(PyStr(<<"A", "b">>))>>, FALSE, <<>>)
\* the same task at a later time
Rec1b == RawTask(<<"t", "1">>, "one again", Done, <<Later>>,
                 <<FScore(PyStr(<<"7">>))>>, FALSE, <<>>)
\* fields that cannot be normalized: a non-numeric number, an index out of range
Rec2 == RawTask(<<"t", "2">>, "two", Open, <<Urgent, Later>>,
                <<FScore(PyStr(<<"a", "b">>)), FPrio(PyInt(5))>>, FALSE, <<>>)
\* a declared field without a value
Rec3 == RawTask(<<"t", "3">>, "three", Review, <<Later>>,
                <<FScore(Absent), FPrio(PyInt(1))>>, FALSE, <<>>)
\* no custom field at all
Rec4 == RawTask(<<"t", "4">>, "four", Done, <<>>, <<>>, FALSE, <<>>)

RawTasks == {Rec1, Rec1b, Rec2, Rec3, Rec4}

\* embedded subtask records
Sub1 == RawTask(<<"s", "1">>, "sub one", Open, <<Urgent>>,
                <<FScore(PyStr(<<"5">>))>>, FALSE, <<>>)
Sub2 == RawTask(<<"s", "2">>, "sub two", Open, <<>>,
                <<FScore(Absent)>>, FALSE, <<>>)
Sub3 == RawTask(<<"s", "3">>, "sub three", Done, <<Later>>, <<>>, FALSE, <<>>)
Sub4 == RawTask(<<"s", "4">>, "sub four", Open, <<Urgent>>,
                <<FScore(PyStr(<<"a", "b">>))>>, FALSE, <<>>)
Sub5 == RawTask(<<"s", "5">>, "sub five", Done, <<Urgent>>,
                <<FScore(PyStr(<<"5", ".", "0">>))>>, FALSE, <<>>)

WithSubtasks(raw, subtasks) ==
    [raw EXCEPT !.has_subtasks = TRUE, !.subtasks = subtasks]

TaskIds == {<<"t", "1">>, <<"t", "2">>, <<"t", "3">>, <<"t", "4">>, <<"t", "9">>}

\* what the remote holds under each identifier (nothing under t9)
RemoteStore ==
    [id \in TaskIds |->
        CASE id = <<"t", "1">> -> PyDict(WithSubtasks(Rec1, <<Sub1, Sub2, Sub3, Sub5>>))
          [] id = <<"t", "2">> -> PyDict(WithSubtasks(Rec2, <<Sub1, Sub4, Sub5>>))
          [] id = <<"t", "3">> -> PyDict(WithSubtasks(Rec3, <<>>))
          [] id = <<"t", "4">> -> PyDict(Rec4)
          [] OTHER -> PyNone]

\* the task_id arguments of Task(...)
TaskIdArgs == TaskIds \cup {<<"#", "t", "1">>}

FieldNames == {"score", "note", "prio", "ghost"}

Operands ==
    {PyNone, PyInt(5), PyInt(4), PyStr(<<"a">>), PyStr(<<"B", "c">>),
     PyList(<<PyInt(5), PyStr(<<"a">>)>>)}

\* every predicate over the names, operators and operands of the model
AllPredicates ==
    {CustomFieldFilter(n, op, v) : n \in FieldNames, op \in FilterOperator, v \in Operands}

\* the predicates the calls of the model are made with
CallPredicates ==
    {CustomFieldFilter("score", "is_set", PyNone),
     CustomFieldFilter("score", "eq", PyInt(5)),
     CustomFieldFilter("note", "contains", PyStr(<<"a">>)),
     CustomFieldFilter("ghost", "eq", PyInt(5))}

SeqsUpTo(S, n) == UNION {[1..m -> S] : m \in 0..n}

FilterLists == SeqsUpTo(CallPredicates, MaxFilters)

TagArgs ==
    {Urgent, PyStr(<<"x">>), PyList(<<>>), PyList(<<Later>>),
     PyList(<<PyStr(<<"x">>), Urgent>>), PyList(<<Urgent, Later>>)}

StatusArgs == {<<>>, <<Open>>, <<PyStr(<<"x">>)>>, <<Done, Open>>}

----------------------------------------------------------------------------
(* The state machine. A run builds one Tasks collection page by page and   *)
(* then filters it, or constructs Task objects by identifier and filters   *)
(* their subtasks. Tasks and Task objects share no state.                  *)

NoTask == [k |-> "none"]
NoCall == [name |-> "none", args |-> <<>>]
NoResult == [o |-> "none"]
NoPost == [k |-> "none"]

Init ==
    /\ pc = "idle"
    /\ tasks = <<>>
    /\ task_ids = <<>>
    /\ page = 0
    /\ coll_include_subtasks = FALSE
    /\ task = NoTask
    /\ fetches = 0
    /\ call = NoCall
    /\ result = NoResult
    /\ posted = NoPost
    /\ remote = PyNone
    /\ requests = <<>>
    /\ team_id = "T1"

\* Tasks.__init__ up to its first request
TasksInit(incl) ==
    /\ pc = "idle"
    /\ pc' = "building"
    /\ tasks' = <<>>
    /\ task_ids' = <<>>
    /\ page' = 0
    /\ coll_include_subtasks' = incl
    /\ call' = [name |-> "Tasks", args |-> <<incl>>]
    /\ result' = NoResult
    /\ requests' = <<>>
    /\ UNCHANGED <<task, fetches>>
    /\ UNCHANGED <<posted, remote, team_id>>

\* self.tasks[task["id"]] = Task(task, include_subtasks=...) for each task of
\* a page: the dict after the loop, or the exception of the first Task(...)
\* that raises
RECURSIVE add_page(_, _, _)
after_task_made(made, coll, data, incl) ==
    IF ~IsOk(made.out) THEN made.out
    ELSE add_page(DictSet(coll, Head(data).id, made.out.v), Tail(data), incl)

add_page(coll, data, incl) ==
    IF Len(data) = 0 THEN Ok(coll)
    ELSE after_task_made(TaskNew(PyDict(Head(data)), incl, TRUE, PyNone, PyNone),
                         coll, data, incl)

\* one turn of the while loop of Tasks.__init__: the remote answers the
\* request for page query["page"] with the tasks `data`, and the request
\* and its answer are logged
TasksFetchPage(data) ==
    /\ pc = "building"
    /\ Len(task_ids) + Len(data) <= MaxTasks
    /\ IF Len(data) = 0
       THEN /\ pc' = "built"
            /\ result' = Ok(PyNone)
            /\ UNCHANGED <<tasks, task_ids, page>>
       ELSE \E added \in {add_page(tasks, data, coll_include_subtasks)} :
                IF IsOk(added)
                THEN /\ tasks' = added.v
                     /\ task_ids' = task_ids \o [i \in 1..Len(data) |-> data[i].id]
                     /\ page' = page + 1
                     /\ UNCHANGED <<pc, result>>
                ELSE /\ pc' = "failed"
                     /\ result' = added
                     /\ UNCHANGED <<tasks, task_ids, page>>
    /\ requests' = Append(requests, [page |-> page, tasks |-> data])
    /\ UNCHANGED <<coll_include_subtasks, task, fetches, call>>
    /\ UNCHANGED <<posted, remote, team_id>>

FilterByCustomFields(filters) ==
    /\ pc = "built"
    /\ call' = [name |-> "filter_by_custom_fields", args |-> <<filters>>]
    /\ result' = filter_by_custom_fields(tasks, filters)
    /\ fetches' = 0
    /\ UNCHANGED <<pc, tasks, task_ids, page, coll_include_subtasks, task>>
    /\ UNCHANGED <<posted, remote, requests, team_id>>

FilterByStatuses(status_names) ==
    /\ pc = "built"
    /\ call' = [name |-> "filter_by_statuses", args |-> <<status_names>>]
    /\ result' = filter_by_statuses(tasks, status_names)
    /\ fetches' = 0
    /\ UNCHANGED <<pc, tasks, task_ids, page, coll_include_subtasks, task>>
    /\ UNCHANGED <<posted, remote, requests, team_id>>

FilterByTag(tag_names, with_subtasks) ==
    /\ pc = "built"
    /\ call' = [name |-> "filter_by_tag", args |-> <<tag_names, with_subtasks>>]
    /\ \E r \in {filter_by_tag(tasks, tag_names, with_subtasks, RemoteStore)} :
          result' = r.out /\ fetches' = r.sent
    /\ UNCHANGED <<pc, tasks, task_ids, page, coll_include_subtasks, task>>
    /\ UNCHANGED <<posted, remote, requests, team_id>>

\* Task(task_id, include_subtasks=..., except_missing_cf_value=...)
TaskInit(task_id, incl, policy) ==
    /\ pc \in {"idle", "task"}
    /\ pc' = "task"
    /\ call' = [name |-> "Task", args |-> <<task_id, incl, policy>>]
    /\ \E made \in {TaskNew(PyStr(task_id), incl, policy, PyNone,
                              RemoteStore[StripHash(task_id)])} :
           /\ result' = IF IsOk(made.out) THEN Ok(PyNone) ELSE made.out
           /\ task' = IF IsOk(made.out) THEN made.out.v ELSE NoTask
           /\ fetches' = made.sent
    /\ UNCHANGED <<tasks, task_ids, page, coll_include_subtasks>>
    /\ UNCHANGED <<posted, remote, requests, team_id>>

GetFilteredSubtasks(filters) ==
    /\ pc = "task"
    /\ task # NoTask
    /\ call' = [name |-> "get_filtered_subtasks", args |-> <<filters>>]
    /\ result' = get_filtered_subtasks(task, filters)
    /\ fetches' = 0
    /\ UNCHANGED <<pc, tasks, task_ids, page, coll_include_subtasks, task>>
    /\ UNCHANGED <<posted, remote, requests, team_id>>

Next ==
    \/ \E incl \in BOOLEAN : TasksInit(incl)
    \/ \E data \in SeqsUpTo(RawTasks, MaxTasks) : TasksFetchPage(data)
    \/ \E filters \in FilterLists : FilterByCustomFields(filters)
    \/ \E status_names \in StatusArgs : FilterByStatuses(status_names)
    \/ \E tag_names \in TagArgs, with_subtasks \in BOOLEAN :
          FilterByTag(tag_names, with_subtasks)
    \/ \E task_id \in TaskIdArgs, incl \in BOOLEAN, policy \in BOOLEAN :
          TaskInit(task_id, incl, policy)
    \/ \E filters \in FilterLists : GetFilteredSubtasks(filters)

Spec == Init /\ [][Next]_vars

----------------------------------------------------------------------------
(* Listing: the lists of a workspace, and a Tasks collection built page by *)
(* page and counted. The loop of Tasks.__init__ keeps requesting, and the  *)
(* remote answers with an empty page in the end.                           *)

\* What the remote holds for each team: its spaces, each with its lists
\* and its folders, each folder with its lists (names are left out).
Workspace ==
    [t \in {"T1", "T2", "T3"} |->
        CASE t = "T1" ->
                <<[id |-> "s1",
                   lists |-> <<[id |-> "l1", archived |-> FALSE],
                               [id |-> "l2", archived |-> TRUE]>>,
                   folders |-> <<[id |-> "f1",
                                  lists |-> <<[id |-> "l3", archived |-> FALSE]>>]>>],
                  [id |-> "s2", lists |-> <<>>, folders |-> <<>>]>>
          [] t = "T2" ->
                <<[id |-> "s3",
                   lists |-> <<[id |-> "l4", archived |-> FALSE]>>,
                   folders |-> <<[id |-> "f2",
                                  lists |-> <<[id |-> "l5", archived |-> TRUE]>>]>>]>>
          [] OTHER -> <<>>]

\* the GETs of the loop over the spaces, in order, with their answers:
\* SpaceLists(space_id), Folders(space_id) and FolderLists(folder_id) for
\* each folder of the space
RECURSIVE ListingGets(_)
ListingGets(spaces) ==
    IF Len(spaces) = 0 THEN <<>>
    ELSE <<[url |-> "space/list", id |-> Head(spaces).id,
            space_id |-> Head(spaces).id, answer |-> Head(spaces).lists],
           [url |-> "space/folder", id |-> Head(spaces).id,
            space_id |-> Head(spaces).id, answer |-> Head(spaces).folders]>>
         \o [i \in 1..Len(Head(spaces).folders) |->
                [url |-> "folder/list", id |-> Head(spaces).folders[i].id,
                 space_id |-> Head(spaces).id,
                 answer |-> Head(spaces).folders[i].lists]]
         \o ListingGets(Tail(spaces))

\* all_lists after the GETs `gets`: the lists of every answer that are not
\* skipped as archived, each with its space and its folder
RECURSIVE AllLists(_, _)
AllLists(gets, archived) ==
    IF Len(gets) = 0 THEN <<>>
    ELSE (IF Head(gets).url \in {"space/list", "folder/list"}
          THEN LET kept == SelectSeq(Head(gets).answer,
                                     LAMBDA l : archived \/ ~l.archived)
               IN  [i \in 1..Len(kept) |->
                      [id |-> kept[i].id, space_id |-> Head(gets).space_id,
                       folder_id |-> IF Head(gets).url = "folder/list"
                                     THEN Head(gets).id ELSE "None"]]
          ELSE <<>>)
         \o AllLists(Tail(gets), archived)

\* a variant without the finally clause: team_id is restored on return only
get_all_lists_no_finally(team_id_param, archived, original_team_id, fail_at) ==
    LET gets == <<[url |-> "team/space", id |-> team_id_param,
                   answer |-> Workspace[team_id_param]]>>
                \o ListingGets(Workspace[team_id_param])
    IN  IF fail_at \in 1..Len(gets)
        THEN [gets |-> SubSeq(gets, 1, fail_at),
              out |-> Raise("Exception"),
              team_id |-> team_id_param]
        ELSE [gets |-> gets,
              out |-> Ok(PyList(AllLists(gets, archived))),
              team_id |-> original_team_id]

\* get_all_lists(team_id_param, archived), called while the module's
\* team_id is original_team_id: the global is set to team_id_param, Spaces()
\* reads it for its URL, and the finally clause sets it back. The GET
\* number fail_at raises (none when fail_at is 0). The outcome, the GETs
\* made and the module's team_id after the call.
get_all_lists(team_id_param, archived, original_team_id, fail_at) ==
    LET gets == <<[url |-> "team/space", id |-> team_id_param,
                   answer |-> Workspace[team_id_param]]>>
                \o ListingGets(Workspace[team_id_param])
    IN  IF fail_at \in 1..Len(gets)
        THEN [gets |-> SubSeq(gets, 1, fail_at),
              out |-> Raise("Exception"),
              team_id |-> original_team_id]
        ELSE [gets |-> gets,
              out |-> Ok(PyList(AllLists(gets, archived))),
              team_id |-> original_team_id]

GetAllLists(team_id_param, archived, fail_at) ==
    /\ pc = "idle"
    /\ call' = [name |-> "get_all_lists", args |-> <<team_id_param, archived>>]
    /\ \E r \in {get_all_lists(team_id_param, archived, team_id, fail_at)} :
          /\ requests' = r.gets
          /\ result' = r.out
          /\ team_id' = r.team_id
    /\ fetches' = 0
    /\ UNCHANGED <<pc, tasks, task_ids, page, coll_include_subtasks, task>>
    /\ UNCHANGED <<posted, remote>>

\* Tasks.get_count()
GetCount ==
    /\ pc = "built"
    /\ call' = [name |-> "get_count", args |-> <<>>]
    /\ result' = Ok(PyInt(get_count(task_ids)))
    /\ fetches' = 0
    /\ UNCHANGED <<pc, tasks, task_ids, page, coll_include_subtasks, task>>
    /\ UNCHANGED <<posted, remote, requests, team_id>>

BuildNext ==
    \/ \E incl \in BOOLEAN : TasksInit(incl)
    \/ \E data \in SeqsUpTo(RawTasks, MaxTasks) : TasksFetchPage(data)
    \/ GetCount
    \/ \E team_id_param \in DOMAIN Workspace, archived \in BOOLEAN :
          \E fail_at \in 0..(1 + Len(ListingGets(Workspace[team_id_param]))) :
             GetAllLists(team_id_param, archived, fail_at)

BuildSpec == Init /\ [][BuildNext]_vars /\ WF_vars(TasksFetchPage(<<>>))

----------------------------------------------------------------------------
(* Task.post_custom_field: the value it puts in the payload.               *)

\* an option of a drop_down field, and one of a labels field
DropOption(name, orderindex) == [name |-> name, orderindex |-> orderindex]
LabelOption(id, label) == [id |-> id, label |-> label]

\* a variant that counts the options from one
OrderIndexOf_from_one(options, value) ==
    LET hits == {i \in 1..Len(options) : PyEq(options[i].name, value)}
    IN  IF hits = {} THEN Raise("KeyError")
        ELSE Ok(PyInt(CHOOSE i \in hits : \A j \in hits : j <= i))

\* lookup[item["name"]] = item["orderindex"] for each option, then
\* lookup[value]: the last option of that name
OrderIndexOf(options, value) ==
    LET hits == {i \in 1..Len(options) : PyEq(options[i].name, value)}
    IN  IF hits = {} THEN Raise("KeyError")
        ELSE Ok(PyInt(options[CHOOSE i \in hits : \A j \in hits : j <= i].orderindex))

\* a variant that lets the KeyError of the lookup escape
KeepUnresolved_raises(found, value) == found

\* try: payload["value"] = lookup[value]; except KeyError: pass
KeepUnresolved(found, value) == IF IsOk(found) THEN found ELSE Ok(value)

\* try: int(value); except ValueError: ..., as_int being the outcome of
\* int(value)
DropDownLookup(as_int, options, value) ==
    IF IsOk(as_int) THEN Ok(value)
    ELSE IF Raises(as_int, "ValueError")
    THEN KeepUnresolved(OrderIndexOf(options, value), value)
    ELSE as_int

DropDownPayload(field, value) ==
    DropDownLookup(PyIntOf(value), field.options, value)

\* label_lookup = {option["label"]: option["id"] ...}; label_lookup[name]
IdOfLabel(options, label_name) ==
    LET hits == {i \in 1..Len(options) : PyEq(options[i].label, label_name)}
    IN  IF hits = {} THEN Raise("KeyError")
        ELSE Ok(options[CHOOSE i \in hits : \A j \in hits : j <= i].id)

\* a variant that skips the labels that are no option
LabelIds_skips_unknown(options, names) ==
    LET known == SelectSeq(names, LAMBDA n : IsOk(IdOfLabel(options, n)))
    IN  Ok(PyList([i \in 1..Len(known) |-> IdOfLabel(options, known[i]).v]))

\* [label_lookup[label_name] for label_name in value], ValueError for the
\* KeyError of a label that is no option
LabelIds(options, names) ==
    IF \E i \in 1..Len(names) : ~IsOk(IdOfLabel(options, names[i]))
    THEN Raise("ValueError")
    ELSE Ok(PyList([i \in 1..Len(names) |-> IdOfLabel(options, names[i]).v]))

LabelsPayload(field, value) ==
    IF value.k = "str" THEN LabelIds(field.options, <<value>>)
    ELSE IF value.k = "list" THEN LabelIds(field.options, value.l)
    ELSE Raise("TypeError")

\* the payload value by the type of the field, obj being the outcome of
\* get_field_obj(field)
PayloadValue(obj, value) ==
    IF ~IsOk(obj) THEN obj
    ELSE IF obj.v.type = "drop_down" THEN DropDownPayload(obj.v, value)
    ELSE IF obj.v.type = "labels" THEN LabelsPayload(obj.v, value)
    ELSE Ok(value)

\* Task.post_custom_field up to its request: the payload it posts, or the
\* exception it raises before posting
post_custom_field(t, field, value) ==
    PayloadValue(get_field_obj(t, field), value)

\* post_task for one entry of its custom_fields argument: the value it puts
\* in the payload for the field fname of the list, or the exception it
\* raises; field_lookup is List(list_id).field_lookup
post_task(field_lookup, fname, fvalue) ==
    IF fname \notin DOMAIN field_lookup THEN Raise("KeyError")
    ELSE IF field_lookup[fname].type # "drop_down" THEN Ok(fvalue)
    ELSE IF IsOk(PyIntOf(fvalue)) THEN Ok(fvalue)
    ELSE IF Raises(PyIntOf(fvalue), "ValueError")
    THEN OrderIndexOf(field_lookup[fname].options, fvalue)
    ELSE PyIntOf(fvalue)

----------------------------------------------------------------------------
(* One Task with one custom field: lookups and posts. The remote holds a   *)
(* record with a single custom field "f"; the Task is constructed from its *)
(* id, read with get_field and written with post_custom_field.             *)

MaxIds == 2         \* elements of a raw id list, a tasks list, a label list

\* the names, labels and ids of the fields of the model
Sample ==
    [Low |-> PyStr(<<"L", "o">>), High |-> PyStr(<<"H", "i">>),
     Seven |-> PyStr(<<"7">>), Pink |-> PyStr(<<"P", "k">>),
     Red |-> PyStr(<<"R", "e", "d">>), Blue |-> PyStr(<<"B", "l">>),
     IdA |-> PyStr(<<"a">>), IdB |-> PyStr(<<"b">>), IdC |-> PyStr(<<"c">>)]

\* option lists of drop_down fields: two options, an option whose name is
\* a number, orderindex values that are not the positions, and no option
DropOptionLists ==
    {<<DropOption(Sample.Low, 0), DropOption(Sample.High, 1)>>,
     <<DropOption(Sample.Seven, 0), DropOption(Sample.Low, 1)>>,
     <<DropOption(Sample.Low, 1), DropOption(Sample.High, 0)>>,
     <<>>}

LabelOptions ==
    <<LabelOption(Sample.IdA, Sample.Red), LabelOption(Sample.IdC, Sample.Blue)>>

\* the raw values of the fields of a type; timestamps are in days: the
\* first and last day of 1970 and the days around them
RawsOf(type) ==
    CASE type = "number" ->
            {PyStr(<<"4", "2">>), PyStr(<<"3", ".", "1", "4">>),
             PyStr(<<"a", "b", "c">>), PyStr(<<"7", ".">>), PyInt(5),
             PyFloat(7, 2), PyNone, Absent}
      [] type = "drop_down" ->
            {PyInt(i) : i \in -3..2} \cup {PyStr(<<"1">>), PyNone, Absent}
      [] type = "labels" ->
            {PyList(ids) : ids \in SeqsUpTo({Sample.IdA, Sample.IdB}, MaxIds)}
            \cup {PyList(<<Sample.IdC, Sample.IdA>>), Absent}
      [] type = "date" ->
            {PyInt(-1), PyInt(0), PyInt(364), PyInt(365), PyStr(<<"0">>),
             PyStr(<<"4", "0", "0">>), PyStr(<<"a", "b">>), Absent}
      [] type = "tasks" ->
            {PyList(ids) : ids \in SeqsUpTo({Sample.IdA, Sample.IdB}, MaxIds)}
            \cup {Absent}
      [] OTHER -> {PyStr(<<"A", "b">>), Absent}

FieldInputs ==
    {Field("f", "drop_down", v, o) : v \in RawsOf("drop_down"), o \in DropOptionLists}
    \cup {Field("f", "labels", v, LabelOptions) : v \in RawsOf("labels")}
    \cup UNION {{Field("f", t, v, <<>>) : v \in RawsOf(t)} :
                  t \in {"number", "date", "tasks", "text"}}

FieldTaskId == <<"f", "1">>
FieldRecord(field) == RawTask(FieldTaskId, "field", Open, <<>>, <<field>>, FALSE, <<>>)

LookupNames == {"f", "ghost"}

\* the values post_custom_field is called with, by the type of the field
PostValues(type) ==
    IF type = "drop_down"
    THEN {Sample.Low, Sample.High, Sample.Seven, Sample.Pink, PyStr(<<"1">>), PyInt(1)}
    ELSE IF type = "labels"
    THEN {Sample.Red, Sample.Pink}
         \cup {PyList(l) : l \in SeqsUpTo({Sample.Red, Sample.Pink}, MaxIds)}
         \cup {PyList(<<Sample.Blue, Sample.Red>>)}
    ELSE {PyStr(<<"4", "2">>)}

\* the response of the POST
Response == [k |-> "response"]

\* the record of the remote once it has stored `value` in the field `name`
Stored(record, name, value) ==
    [record EXCEPT !.custom_fields =
        [i \in 1..Len(record.custom_fields) |->
            IF record.custom_fields[i].name = name
            THEN [record.custom_fields[i] EXCEPT !.value = value]
            ELSE record.custom_fields[i]]]

FieldInit ==
    /\ pc = "task"
    /\ tasks = <<>>
    /\ task_ids = <<>>
    /\ page = 0
    /\ coll_include_subtasks = FALSE
    /\ remote \in {PyDict(FieldRecord(field)) : field \in FieldInputs}
    /\ task \in {TaskNew(PyStr(FieldTaskId), FALSE, policy, PyNone, remote).out.v :
                    policy \in BOOLEAN}
    /\ fetches = 1
    /\ call = [name |-> "Task", args |-> <<FieldTaskId, FALSE>>]
    /\ result = Ok(PyNone)
    /\ posted = NoPost
    /\ requests = <<>>
    /\ team_id = "T1"

GetField(name) ==
    /\ pc = "task"
    /\ call' = [name |-> "get_field", args |-> <<name>>]
    /\ result' = get_field(task, name)
    /\ fetches' = 0
    /\ posted' = NoPost
    /\ UNCHANGED <<pc, tasks, task_ids, page, coll_include_subtasks, task, remote>>
    /\ UNCHANGED <<requests, team_id>>

\* if reinitialize: self.reinitialize(self.id)
refreshed(t, reinit, fetched) ==
    IF reinit
    THEN reinitialize(t.id, t.include_subtasks, t.except_missing_cf_value,
                      t.raw_task, fetched)
    ELSE [out |-> Ok(t), sent |-> 0]

\* post_custom_field from its request on: the remote stores the value when
\* the URL names the task, that is when self.id is the id string
posted_field(e, field, reinit) ==
    /\ posted' = [field |-> field, value |-> e.v]
    /\ remote' = IF task.id.k = "str" THEN PyDict(Stored(remote.x, field, e.v))
                 ELSE remote
    /\ \E made \in {refreshed(task, reinit, remote')} :
          /\ task' = made.out.v
          /\ fetches' = made.sent
    /\ result' = Ok(Response)

PostCustomField(field, value, reinit) ==
    /\ pc = "task"
    /\ call' = [name |-> "post_custom_field", args |-> <<field, value, reinit>>]
    /\ \E e \in {post_custom_field(task, field, value)} :
          IF IsOk(e) THEN posted_field(e, field, reinit)
          ELSE /\ result' = e
               /\ posted' = NoPost
               /\ fetches' = 0
               /\ UNCHANGED <<task, remote>>
    /\ UNCHANGED <<pc, tasks, task_ids, page, coll_include_subtasks>>
    /\ UNCHANGED <<requests, team_id>>

\* the module-level function post_task, called with one custom field for
\* the list of the Task: the fields of the list are those of the record
PostTask(fname, fvalue) ==
    /\ pc = "task"
    /\ call' = [name |-> "post_task", args |-> <<fname, fvalue>>]
    /\ \E e \in {post_task(CustomFields(remote.x.custom_fields), fname, fvalue)} :
          IF IsOk(e)
          THEN /\ posted' = [field |-> fname, value |-> e.v]
               /\ result' = Ok(Response)
          ELSE /\ posted' = NoPost
               /\ result' = e
    /\ fetches' = 0
    /\ UNCHANGED <<pc, tasks, task_ids, page, coll_include_subtasks, task, remote>>
    /\ UNCHANGED <<requests, team_id>>

\* the module-level function ts_ms_to_dt
TsMsToDt(ts, except_if_year_1970) ==
    /\ pc = "task"
    /\ call' = [name |-> "ts_ms_to_dt", args |-> <<ts, except_if_year_1970>>]
    /\ result' = ts_ms_to_dt(ts, except_if_year_1970)
    /\ fetches' = 0
    /\ posted' = NoPost
    /\ UNCHANGED <<pc, tasks, task_ids, page, coll_include_subtasks, task, remote>>
    /\ UNCHANGED <<requests, team_id>>

FieldNext ==
    \/ \E name \in LookupNames : GetField(name)
    \/ \E ts \in {v \in RawsOf("date") : v = remote.x.custom_fields[1].value /\ v.k # "absent"},
          except_if_year_1970 \in BOOLEAN :
             TsMsToDt(ts, except_if_year_1970)
    \/ \E field \in LookupNames, reinit \in BOOLEAN :
          \E value \in PostValues(remote.x.custom_fields[1].type) :
             PostCustomField(field, value, reinit)
    \/ \E fname \in LookupNames :
          \E fvalue \in PostValues(remote.x.custom_fields[1].type) :
             PostTask(fname, fvalue)

FieldSpec == FieldInit /\ [][FieldNext]_vars

----------------------------------------------------------------------------
(* Refreshing: one Task, constructed in each of the ways the module        *)
(* constructs Tasks, is written to and refreshed.                          *)

\* Task(task_id, raw_task=...) from the id string, from the record (as
\* Tasks.__init__ does), from the record passed as raw_task too (as
\* get_filtered_subtasks does), and from the id string with raw_task
RefreshInit ==
    /\ pc = "task"
    /\ tasks = <<>>
    /\ task_ids = <<>>
    /\ page = 0
    /\ coll_include_subtasks = FALSE
    /\ remote \in {PyDict(FieldRecord(field)) :
                     field \in {Field("f", "drop_down", PyInt(0),
                                      <<DropOption(Sample.Low, 0),
                                        DropOption(Sample.High, 1)>>),
                                Field("f", "text", PyStr(<<"A", "b">>), <<>>)}}
    /\ \E args \in {<<PyStr(FieldTaskId), PyNone>>, <<remote, PyNone>>,
                     <<remote, remote>>, <<PyStr(FieldTaskId), remote>>} :
          /\ call = [name |-> "Task", args |-> args]
          /\ \E made \in {TaskNew(args[1], FALSE, TRUE, args[2], remote)} :
                /\ task = made.out.v
                /\ fetches = made.sent
    /\ result = Ok(PyNone)
    /\ posted = NoPost
    /\ requests = <<>>
    /\ team_id = "T1"

\* Task.add_tags: one POST for each tag, answered 200 when the URL names
\* the task and 404 otherwise, then self.reinitialize(self.id); the remote
\* adds the tags the task does not carry yet
AddTags(tag_ids) ==
    /\ pc = "task"
    /\ call' = [name |-> "add_tags", args |-> <<tag_ids>>]
    /\ posted' = NoPost
    /\ IF Len(tag_ids) > 0 /\ task.id.k # "str"
       THEN /\ result' = Raise("Exception")
            /\ fetches' = 0
            /\ UNCHANGED <<task, remote>>
       ELSE /\ remote' = PyDict([remote.x EXCEPT !.tags =
                            @ \o SelectSeq(tag_ids, LAMBDA t : ~PyInList(t, @))])
            /\ \E made \in {refreshed(task, TRUE, remote')} :
                  /\ task' = made.out.v
                  /\ fetches' = made.sent
            /\ result' = Ok(PyNone)
    /\ UNCHANGED <<pc, tasks, task_ids, page, coll_include_subtasks>>
    /\ UNCHANGED <<requests, team_id>>

RefreshNext ==
    \/ \E field \in LookupNames, reinit \in BOOLEAN :
          \E value \in PostValues(remote.x.custom_fields[1].type) :
             PostCustomField(field, value, reinit)
    \/ \E tag_ids \in {<<>>, <<Urgent>>} : AddTags(tag_ids)

RefreshSpec == RefreshInit /\ [][RefreshNext]_vars

----------------------------------------------------------------------------
(* The two evaluators on one Task with one custom field: the Task of the   *)
(* section above, and every operator against operands of every type.      *)

\* the predicates the evaluators are called with
EvalPredicates ==
    {CustomFieldFilter("f", op, v) :
        op \in FilterOperator,
        v \in {PyNone, PyInt(5), PyFloat(314, 100), PyStr(<<"a">>),
               PyStr(<<"A", "B">>), PyStr(<<"7">>),
               PyList(<<PyInt(5), PyStr(<<"a">>)>>), PyDt(365, 1)}}

\* Tasks._evaluate_filter(task, filter_obj)
EvaluateFilter(filter_obj) ==
    /\ pc = "task"
    /\ call' = [name |-> "_evaluate_filter", args |-> <<filter_obj>>]
    /\ result' = evaluate_filter(task, filter_obj)
    /\ fetches' = 0
    /\ posted' = NoPost
    /\ UNCHANGED <<pc, tasks, task_ids, page, coll_include_subtasks, task, remote>>
    /\ UNCHANGED <<requests, team_id>>

\* Task._evaluate_subtask_filter(subtask, filter_obj), the subtask being the
\* Task object made for the record as get_filtered_subtasks makes it
EvaluateSubtaskFilter(filter_obj) ==
    /\ pc = "task"
    /\ call' = [name |-> "_evaluate_subtask_filter", args |-> <<filter_obj>>]
    /\ result' = evaluate_subtask_filter(SubtaskObject(task.task), filter_obj)
    /\ fetches' = 0
    /\ posted' = NoPost
    /\ UNCHANGED <<pc, tasks, task_ids, page, coll_include_subtasks, task, remote>>
    /\ UNCHANGED <<requests, team_id>>

EvalNext ==
    \/ \E filter_obj \in EvalPredicates : EvaluateFilter(filter_obj)
    \/ \E filter_obj \in EvalPredicates : EvaluateSubtaskFilter(filter_obj)

EvalSpec == FieldInit /\ [][EvalNext]_vars

----------------------------------------------------------------------------
(* Vocabulary of the properties.                                           *)

IsSet(n) == CustomFieldFilter(n, "is_set", PyNone)
IsNotSet(n) == CustomFieldFilter(n, "is_not_set", PyNone)

IsTrue(r) == r.o = "ok" /\ r.v
IsFalse(r) == r.o = "ok" /\ ~r.v

Declared(t, n) == n \in DOMAIN t.custom_fields
HasValue(t, n) == Declared(t, n) /\ t.custom_fields[n].value.k # "absent"
\* the field is undeclared, or declared without a value
Missing(t, n) == ~HasValue(t, n)
\* the field has a value that cannot be normalized (a type mismatch)
Malformed(t, n) ==
    HasValue(t, n) /\ ~IsOk(NormalizeField(t.custom_fields[n]))

\* the Task objects of the collection, and those that get_filtered_subtasks
\* makes for the subtasks of the Task constructed on its own
CollectionTasks == {tasks[i].val : i \in 1..Len(tasks)}
SubtaskTasks ==
    IF task = NoTask THEN {}
    ELSE {SubtaskObject(task.task.subtasks[i]) : i \in 1..Len(task.task.subtasks)}

ExistencePredicates == {"is_set", "is_not_set"}
ValuePredicates ==
    {p \in AllPredicates : p.operator \notin ExistencePredicates}

CalledFilter(name) == call.name = name
FiltersOfCall == call.args[1]

\* every predicate of the list evaluates to true on t
EveryPredicateTrue(t, filters) ==
    \A j \in 1..Len(filters) : IsTrue(evaluate_filter(t, filters[j]))
EverySubtaskPredicateTrue(t, filters) ==
    \A j \in 1..Len(filters) : IsTrue(evaluate_subtask_filter(t, filters[j]))

Entries(d) == {d[i] : i \in 1..Len(d)}

----------------------------------------------------------------------------
(* C1: for every task and every field name, exactly one of IS_SET and      *)
(* IS_NOT_SET evaluates to true, in Tasks._evaluate_filter (over the tasks *)
(* of a collection) and in Task._evaluate_subtask_filter (over the         *)
(* subtasks of a Task), for fields that are declared with a value,         *)
(* declared without one, or not declared.                                  *)
ExactlyOneTrue(a, b) == (IsTrue(a) /\ IsFalse(b)) \/ (IsFalse(a) /\ IsTrue(b))

C1_SetNotSetComplementary ==
    /\ \A t \in CollectionTasks : \A n \in FieldNames :
          ~Malformed(t, n) =>
             ExactlyOneTrue(evaluate_filter(t, IsSet(n)),
                            evaluate_filter(t, IsNotSet(n)))
    /\ \A t \in SubtaskTasks : \A n \in FieldNames :
          ~Malformed(t, n) =>
             ExactlyOneTrue(evaluate_subtask_filter(t, IsSet(n)),
                            evaluate_subtask_filter(t, IsNotSet(n)))

(* C2: IS_SET evaluates to true exactly when the field is declared and     *)
(* carries a value, and to false, without raising, when the field is       *)
(* undeclared or declared without a value.                                 *)
C2_IsSetIffDeclaredWithValue ==
    \A t \in CollectionTasks : \A n \in FieldNames :
       ~Malformed(t, n) =>
          IF HasValue(t, n) THEN IsTrue(evaluate_filter(t, IsSet(n)))
          ELSE IsFalse(evaluate_filter(t, IsSet(n)))

(* C3: when the predicate's field is undeclared or declared without a      *)
(* value, every operator other than IS_SET and IS_NOT_SET evaluates to     *)
(* false and raises nothing, in both evaluators; and filter_by_custom_     *)
(* fields whose predicate is on a field that no task declares returns an   *)
(* empty result.                                                           *)
NoTaskDeclares(n) == \A t \in CollectionTasks : ~Declared(t, n)

C3_MissingFieldIsNoMatch ==
    /\ \A t \in CollectionTasks : \A p \in ValuePredicates :
          Missing(t, p.field_name) => IsFalse(evaluate_filter(t, p))
    /\ \A t \in SubtaskTasks : \A p \in ValuePredicates :
          Missing(t, p.field_name) => IsFalse(evaluate_subtask_filter(t, p))
    /\ (/\ CalledFilter("filter_by_custom_fields")
        /\ Len(FiltersOfCall) > 0
        /\ FiltersOfCall[1].operator \notin ExistencePredicates
        /\ NoTaskDeclares(FiltersOfCall[1].field_name))
       => (IsOk(result) /\ Len(result.v) = 0)

C3_Witness ==
    /\ pc = "built"
    /\ CalledFilter("filter_by_custom_fields")
    /\ Len(FiltersOfCall) = 1
    /\ FiltersOfCall[1].operator = "eq"
    /\ NoTaskDeclares(FiltersOfCall[1].field_name)
    /\ \E t \in CollectionTasks : Declared(t, "score") /\ ~HasValue(t, "score")
    /\ \E t \in CollectionTasks : ~Declared(t, "score")
    /\ IsOk(result) /\ Len(result.v) = 0

(* C4: in filter_by_custom_fields a task whose field cannot be normalized  *)
(* (a non-numeric number, a drop_down index out of range) does not abort   *)
(* the filter: the call returns, and returns the other tasks that match.   *)
TypeMismatchErrors == {"ValueError", "IndexError"}

C4_TypeMismatchIsolated ==
    CalledFilter("filter_by_custom_fields") =>
       /\ ~(result.o = "raise" /\ result.e \in TypeMismatchErrors)
       /\ IsOk(result) =>
             \A e \in Entries(tasks) :
                EveryPredicateTrue(e.val, FiltersOfCall) => e \in Entries(result.v)

(* C5: filter_by_custom_fields(filters) returns exactly the tasks of the   *)
(* collection for which every predicate of the list evaluates to true;     *)
(* with an empty list it returns every task.                               *)
C5_ReturnsExactlyTheMatches ==
    CalledFilter("filter_by_custom_fields") =>
       /\ IsOk(result)
       /\ Entries(result.v) =
             {e \in Entries(tasks) : EveryPredicateTrue(e.val, FiltersOfCall)}

(* C6 as stated: the result of filter_by_custom_fields, of                 *)
(* filter_by_statuses and of filter_by_tag, with or without                *)
(* include_subtasks, is a sub-mapping of the collection: its identifiers   *)
(* are identifiers of the collection and they map to the same Task         *)
(* records.                                                                *)
IsSubMapping(d, coll) == \A e \in Entries(d) : e \in Entries(coll)

FilterCalls == {"filter_by_custom_fields", "filter_by_statuses", "filter_by_tag"}

C6_EveryFilterReturnsSubMapping ==
    (call.name \in FilterCalls /\ IsOk(result)) => IsSubMapping(result.v, tasks)

(* C6 amended: the result of filter_by_custom_fields, of                   *)
(* filter_by_statuses and of filter_by_tag without include_subtasks is a   *)
(* sub-mapping of the collection, with the same Task records.              *)
WithSubtasksCall == CalledFilter("filter_by_tag") /\ call.args[2]

C6_SubMappingUnlessWithSubtasks ==
    (call.name \in FilterCalls /\ ~WithSubtasksCall /\ IsOk(result))
       => IsSubMapping(result.v, tasks)

C6_Witness ==
    /\ CalledFilter("filter_by_custom_fields")
    /\ IsOk(result)
    /\ Len(result.v) = 1
    /\ Len(tasks) = 2
    /\ IsSubMapping(result.v, tasks)

(* C7: filter_by_tag without include_subtasks returns exactly the tasks    *)
(* that carry at least one tag whose name equals one of the requested      *)
(* names, a single string being a one-name list; the result is empty when  *)
(* no task carries a requested tag.                                        *)
RequestedNames(tag_names) ==
    IF tag_names.k = "str" THEN {tag_names}
    ELSE {tag_names.l[i] : i \in 1..Len(tag_names.l)}

CarriesTag(t, names) == \E j \in 1..Len(t.task.tags) : t.task.tags[j] \in names

C7_TagFilterExact ==
    (CalledFilter("filter_by_tag") /\ ~call.args[2]) =>
       /\ IsOk(result)
       /\ Entries(result.v) =
             {e \in Entries(tasks) : CarriesTag(e.val, RequestedNames(call.args[1]))}

C7_Witness ==
    /\ CalledFilter("filter_by_tag") /\ ~call.args[2]
    /\ call.args[1].k = "str"
    /\ Len(tasks) = 2
    /\ IsOk(result) /\ Len(result.v) = 1

(* C8: filter_by_statuses returns exactly the tasks whose status equals    *)
(* one of the requested status names.                                      *)
C8_StatusFilterExact ==
    CalledFilter("filter_by_statuses") =>
       /\ IsOk(result)
       /\ Entries(result.v) =
             {e \in Entries(tasks) :
                 \E j \in 1..Len(call.args[1]) :
                    e.val.task.status = call.args[1][j]}

C8_Witness ==
    /\ CalledFilter("filter_by_statuses")
    /\ Len(call.args[1]) = 2
    /\ Len(tasks) = 2
    /\ IsOk(result) /\ Len(result.v) = 1
    /\ result.v[1].val.task.status = call.args[1][2]

(* C9: get_filtered_subtasks on a Task constructed without subtask         *)
(* inclusion fails with ValueError for every predicate list, the empty     *)
(* one included, and fetches nothing: no request is sent and the Task      *)
(* still holds no subtasks.                                                *)
C9_NoSubtasksIsValueError ==
    (CalledFilter("get_filtered_subtasks") /\ ~task.include_subtasks) =>
       /\ Raises(result, "ValueError")
       /\ fetches = 0
       /\ ~task.task.has_subtasks

C9_Witness ==
    /\ CalledFilter("get_filtered_subtasks")
    /\ ~task.include_subtasks
    /\ Len(FiltersOfCall) = 0
    /\ RemoteStore[task.task.id].x.has_subtasks
    /\ Raises(result, "ValueError")

(* C10: get_filtered_subtasks returns, in the order of the parent's        *)
(* subtask list, exactly the subtask records for which every predicate     *)
(* matches, each subtask being evaluated independently of the others, and  *)
(* an empty list when the task has no subtasks.                            *)
SubtasksOf(t) == IF t.task.has_subtasks THEN t.task.subtasks ELSE <<>>

C10_SubtasksFilteredInOrder ==
    (CalledFilter("get_filtered_subtasks") /\ task.include_subtasks) =>
       /\ IsOk(result)
       /\ result.v =
             SelectSeq(SubtasksOf(task),
                LAMBDA sub : EverySubtaskPredicateTrue(SubtaskObject(sub),
                                                       FiltersOfCall))

(* C11: a Tasks collection constructed with include_subtasks=True over a   *)
(* non-empty list is built: construction does not fail, every fetched      *)
(* task is a Task of the collection, and get_filtered_subtasks on those    *)
(* Tasks raises no precondition error.                                     *)
C11_BuiltWithSubtasks ==
    coll_include_subtasks =>
       /\ pc # "failed"
       /\ \A i \in 1..Len(task_ids) : DictHas(tasks, task_ids[i])
       /\ \A t \in CollectionTasks :
             ~Raises(get_filtered_subtasks(t, <<>>), "ValueError")

----------------------------------------------------------------------------
(* Vocabulary of the properties of one Task with the field "f".            *)

Called(name) == call.name = name
GotField(n) == Called("get_field") /\ call.args[1] = n

\* the field item the Task holds, its type and its raw value
Item == task.custom_fields["f"]
ItemIs(type) == Item.type = type
Raw == Item.value
Policy == task.except_missing_cf_value

IsNoneResult(r) == r.o = "ok" /\ r.v.k = "none"
IsMissingValueOutcome(r) == Raises(r, "MissingCustomFieldValue") \/ IsNoneResult(r)

(* C12: get_field raises MissingCustomField for a name the task does not   *)
(* declare, under both policies; for a declared field without a raw value  *)
(* it raises MissingCustomFieldValue when the Task was built with          *)
(* except_missing_cf_value=True and returns None when built with False;    *)
(* and no later call changes the policy the Task was built with.           *)
C12_Lookup ==
    /\ GotField("ghost") => Raises(result, "MissingCustomField")
    /\ (GotField("f") /\ Raw.k = "absent") =>
          IF Policy THEN Raises(result, "MissingCustomFieldValue")
          ELSE IsNoneResult(result)

C12_PolicyKept ==
    task'.except_missing_cf_value = task.except_missing_cf_value

C12_ThreeOutcomes == [](C12_Lookup) /\ [][C12_PolicyKept]_vars

C12_Witness ==
    /\ GotField("f")
    /\ Raw.k = "absent"
    /\ ~Policy
    /\ posted = NoPost /\ remote.x.custom_fields[1].value.k # "absent"
    /\ IsNoneResult(result)

(* C13: get_field on a drop_down field with raw index i returns the name   *)
(* of the option at position i; for every index outside                    *)
(* 0..len(options)-1 it fails with an error and returns no option name.    *)
C13_DropDownByIndex ==
    (GotField("f") /\ ItemIs("drop_down") /\ Raw.k = "int") =>
       IF 0 <= Raw.i /\ Raw.i < Len(Item.options)
       THEN IsOk(result) /\ result.v = Item.options[Raw.i + 1].name
       ELSE ~IsOk(result)

(* C14: get_field on a labels field returns the labels of the raw option   *)
(* ids that occur in the field's options, in the order of the raw ids;     *)
(* ids without an option are dropped without error, and the list may be    *)
(* empty.                                                                  *)
OptionIds(options) == {options[i].id : i \in 1..Len(options)}
LabelWithId(options, id) ==
    options[CHOOSE i \in 1..Len(options) : options[i].id = id].label
KnownIds(options, ids) == SelectSeq(ids, LAMBDA id : id \in OptionIds(options))
LabelsOfKnown(options, ids) ==
    [i \in 1..Len(KnownIds(options, ids)) |->
        LabelWithId(options, KnownIds(options, ids)[i])]

C14_LabelsOfKnownIds ==
    (GotField("f") /\ ItemIs("labels") /\ Raw.k = "list") =>
       /\ IsOk(result)
       /\ result.v.k = "list"
       /\ result.v.l = LabelsOfKnown(Item.options, Raw.l)

C14_Witness ==
    /\ GotField("f") /\ ItemIs("labels")
    /\ Raw = PyList(<<Sample.IdC, Sample.IdA>>)
    /\ result = Ok(PyList(<<Sample.Blue, Sample.Red>>))

(* C15: get_field on a number field returns the integer when the raw value *)
(* parses as an integer (a string of digits, or a number, which int()      *)
(* truncates), otherwise the float when it parses as one, and otherwise    *)
(* fails with an error that reaches the caller under both policies and is  *)
(* not turned into a missing-value outcome.                                *)
DigitChars == {ToString(d) : d \in 0..9}
IsIntText(s) == Len(s) > 0 /\ \A i \in 1..Len(s) : s[i] \in DigitChars
IsFloatText(s) ==
    \E p \in 1..Len(s) :
       /\ s[p] = "."
       /\ Len(s) > 1
       /\ \A i \in 1..Len(s) : i # p => s[i] \in DigitChars

\* the value of a string of digits, and of a decimal text as a fraction
RECURSIVE IntOfText(_)
IntOfText(s) ==
    IF Len(s) = 0 THEN 0
    ELSE 10 * IntOfText(SubSeq(s, 1, Len(s) - 1))
         + (CHOOSE d \in 0..9 : ToString(d) = s[Len(s)])
WithoutDot(s) == SelectSeq(s, LAMBDA c : c # ".")
DecimalsOf(s) == Len(s) - (CHOOSE p \in 1..Len(s) : s[p] = ".")

SameNumber(v, num, den) == IsNum(v) /\ Numer(v) * den = num * Denom(v)

C15_NumberIntElseFloat ==
    (GotField("f") /\ ItemIs("number") /\ Raw.k # "absent") =>
       CASE Raw.k = "str" /\ IsIntText(Raw.s) ->
               IsOk(result) /\ result.v = PyInt(IntOfText(Raw.s))
         [] Raw.k = "str" /\ IsFloatText(Raw.s) ->
               /\ IsOk(result) /\ result.v.k = "float"
               /\ SameNumber(result.v, IntOfText(WithoutDot(Raw.s)),
                             Pow10(DecimalsOf(Raw.s)))
         [] Raw.k = "int" -> IsOk(result) /\ result.v = Raw
         [] Raw.k = "float" ->
               IsOk(result) /\ result.v = PyInt(Raw.n \div Raw.d)
         [] OTHER -> ~IsOk(result) /\ ~IsMissingValueOutcome(result)

C15_Witness ==
    /\ GotField("f") /\ ItemIs("number")
    /\ Raw = PyStr(<<"a", "b", "c">>)
    /\ ~Policy
    /\ Raises(result, "ValueError")

(* C16: a date field whose raw timestamp falls in 1970 (UTC), such as 0,   *)
(* fails with the timestamp-unit error by default; ts_ms_to_dt with the    *)
(* check disabled yields the instant of the same raw value; a value        *)
(* outside 1970 is converted without error. (Timestamps are in days.)      *)
IsTimestamp(v) == v.k = "int" \/ (v.k = "str" /\ IsIntText(v.s))
TimestampOf(v) == IF v.k = "int" THEN v.i ELSE IntOfText(v.s)
In1970(n) == 0 <= n /\ n < DaysIn1970
IsInstant(r, n) == IsOk(r) /\ r.v.k = "dt" /\ r.v.n = n * r.v.d

C16_DateUnitCheck ==
    /\ (GotField("f") /\ ItemIs("date") /\ IsTimestamp(Raw)) =>
          IF In1970(TimestampOf(Raw)) THEN Raises(result, "ValueError")
          ELSE IsInstant(result, TimestampOf(Raw))
    /\ (Called("ts_ms_to_dt") /\ IsTimestamp(call.args[1])) =>
          IF call.args[2] /\ In1970(TimestampOf(call.args[1]))
          THEN Raises(result, "ValueError")
          ELSE IsInstant(result, TimestampOf(call.args[1]))

C16_Witness ==
    /\ Called("ts_ms_to_dt")
    /\ call.args[1] = PyInt(0)
    /\ ~call.args[2]
    /\ ItemIs("date") /\ Raw = PyInt(0)
    /\ IsInstant(result, 0)

(* C17: get_field on a tasks field returns the single element itself when  *)
(* the raw list has exactly one element and the raw list unchanged for     *)
(* every other length.                                                     *)
C17_TasksUnpacksSingleton ==
    (GotField("f") /\ ItemIs("tasks") /\ Raw.k = "list") =>
       /\ IsOk(result)
       /\ IF Len(Raw.l) = 1 THEN result.v = Raw.l[1] ELSE result.v = Raw

C17_Witness ==
    /\ GotField("f") /\ ItemIs("tasks")
    /\ Raw.k = "list" /\ Len(Raw.l) = 2
    /\ result = Ok(Raw)

\* the arguments of a call of post_custom_field on the field "f"
PostedTo(type) ==
    Called("post_custom_field") /\ call.args[1] = "f" /\ ItemIs(type)
Supplied == call.args[2]
Refreshing == call.args[3]

OptionNames(options) == {options[i].name : i \in 1..Len(options)}
OptionLabels(options) == {options[i].label : i \in 1..Len(options)}
OptionNamed(options, name) ==
    options[CHOOSE i \in 1..Len(options) : options[i].name = name]
OptionLabelled(options, label) ==
    options[CHOOSE i \in 1..Len(options) : options[i].label = label]
ParsesAsInt(v) == v.k = "int" \/ (v.k = "str" /\ IsIntText(v.s))

\* the labels a call supplies: a single label stands for a one-label list
SuppliedLabels == IF Supplied.k = "str" THEN <<Supplied>> ELSE Supplied.l
AllValidLabels ==
    \A i \in 1..Len(SuppliedLabels) : SuppliedLabels[i] \in OptionLabels(Item.options)

(* C18 as stated: for every drop_down field and every option name of it,   *)
(* encoding the name with post_custom_field and normalizing the field      *)
(* that carries the encoded value yields the same name; for every labels   *)
(* field and list of valid labels, encoding the list and normalizing the   *)
(* encoded ids yields the same list of labels.                             *)
DropDownRoundTrip ==
    (/\ PostedTo("drop_down") /\ Refreshing
     /\ Supplied \in OptionNames(Item.options))
    => (IsOk(result) /\ Raw = posted.value /\ get_field(task, "f") = Ok(Supplied))

LabelsRoundTrip ==
    (PostedTo("labels") /\ Refreshing /\ Supplied.k = "list" /\ AllValidLabels)
    => (IsOk(result) /\ Raw = posted.value /\ get_field(task, "f") = Ok(Supplied))

C18_EveryOptionRoundTrips == DropDownRoundTrip /\ LabelsRoundTrip

(* C18 amended: the drop_down round trip holds for every option name that  *)
(* does not parse as an integer, of a field whose options carry their      *)
(* list position as orderindex; the labels round trip holds as stated.     *)
PositionsAreOrderIndexes(options) ==
    \A i \in 1..Len(options) : options[i].orderindex = i - 1

C18_NamedOptionRoundTrips ==
    /\ (/\ PostedTo("drop_down")
        /\ ~ParsesAsInt(Supplied)
        /\ PositionsAreOrderIndexes(Item.options))
       => DropDownRoundTrip
    /\ LabelsRoundTrip

C18_Witness ==
    /\ PostedTo("drop_down") /\ Refreshing
    /\ Supplied = Sample.High
    /\ Item.options = <<DropOption(Sample.Low, 0), DropOption(Sample.High, 1)>>
    /\ posted.value = PyInt(1)
    /\ Raw = PyInt(1)
    /\ get_field(task, "f") = Ok(Sample.High)

(* C19: post_custom_field on a drop_down field submits the supplied value  *)
(* unchanged when it parses as an integer; otherwise the orderindex of the *)
(* option whose name equals the value; and when no option has that name    *)
(* it submits the unresolved value and does not raise.                     *)
C19_DropDownEncoding ==
    PostedTo("drop_down") =>
       /\ IsOk(result)
       /\ posted # NoPost
       /\ posted.field = "f"
       /\ IF ParsesAsInt(Supplied) THEN posted.value = Supplied
          ELSE IF Supplied \in OptionNames(Item.options)
          THEN posted.value = PyInt(OptionNamed(Item.options, Supplied).orderindex)
          ELSE posted.value = Supplied

C19_Witness ==
    /\ PostedTo("drop_down")
    /\ Supplied = Sample.Pink
    /\ Len(Item.options) = 2
    /\ IsOk(result)
    /\ posted.value = Sample.Pink

(* C20: post_custom_field on a labels field takes a single label or a list *)
(* of labels and submits the option ids of all of them; if a supplied      *)
(* label is no option of the field it fails with ValueError, no request is *)
(* sent and the Task is not re-initialized.                                *)
C20_Submitted ==
    PostedTo("labels") =>
       IF AllValidLabels
       THEN /\ IsOk(result)
            /\ posted # NoPost
            /\ posted.value =
                  PyList([i \in 1..Len(SuppliedLabels) |->
                             OptionLabelled(Item.options, SuppliedLabels[i]).id])
       ELSE /\ Raises(result, "ValueError")
            /\ posted = NoPost
            /\ fetches = 0

C20_NothingDoneOnFailure ==
    (call'.name = "post_custom_field" /\ ~IsOk(result'))
       => (task' = task /\ remote' = remote)

C20_LabelsEncoding == [](C20_Submitted) /\ [][C20_NothingDoneOnFailure]_vars

C20_Witness ==
    /\ PostedTo("labels") /\ Refreshing
    /\ Supplied = PyList(<<Sample.Red, Sample.Pink>>)
    /\ Raises(result, "ValueError")
    /\ posted = NoPost /\ fetches = 0

----------------------------------------------------------------------------
(* Vocabulary of the operator properties: the call of an evaluator, the    *)
(* value its predicate's field normalizes to, and the orderings of values. *)

Evaluated == Called("_evaluate_filter") \/ Called("_evaluate_subtask_filter")
Evaluatee ==
    IF Called("_evaluate_filter") THEN task ELSE SubtaskObject(task.task)
Normalized == get_field(Evaluatee, call.args[1].field_name)
Operator == call.args[1].operator
Operand == call.args[1].value

BothNumbers(v, w) == v.k \in {"int", "float"} /\ w.k \in {"int", "float"}
BothOf(kind, v, w) == v.k = kind /\ w.k = kind
Quotient(v) == IF v.k = "int" THEN <<v.i, 1>> ELSE <<v.n, v.d>>

\* s comes before t in the dictionary order of the code points
TextBefore(s, t) ==
    \E p \in 1..Len(t) :
        /\ p <= Len(s) + 1
        /\ \A j \in 1..(p - 1) : s[j] = t[j]
        /\ p = Len(s) + 1 \/ Ord(s[p]) < Ord(t[p])

\* two values that are no lists are of one ordered type
ScalarsComparable(v, w) ==
    BothNumbers(v, w) \/ BothOf("str", v, w) \/ BothOf("dt", v, w)

\* v is less than w, for two comparable values that are no lists
ScalarBefore(v, w) ==
    CASE BothNumbers(v, w) ->
            Quotient(v)[1] * Quotient(w)[2] < Quotient(w)[1] * Quotient(v)[2]
      [] BothOf("str", v, w) -> TextBefore(v.s, w.s)
      [] BothOf("dt", v, w) -> v.n * w.d < w.n * v.d

ScalarsSame(v, w) ==
    CASE BothNumbers(v, w) ->
            Quotient(v)[1] * Quotient(w)[2] = Quotient(w)[1] * Quotient(v)[2]
      [] BothOf("dt", v, w) -> v.n * w.d = w.n * v.d
      [] v.k = "list" \/ w.k = "list" -> FALSE
      [] OTHER -> v = w

\* the positions at which two lists (of values that are no lists) differ
Differences(a, b) ==
    {i \in 1..Len(a) : i <= Len(b) /\ ~ScalarsSame(a[i], b[i])}
FirstDifference(a, b) ==
    CHOOSE i \in Differences(a, b) : \A j \in Differences(a, b) : i <= j

\* the two values can be ordered: two numbers, two texts, two instants, or
\* two lists whose first differing elements can be ordered
OrderComparable(v, w) ==
    \/ ScalarsComparable(v, w)
    \/ /\ BothOf("list", v, w)
       /\ \/ Differences(v.l, w.l) = {}
          \/ ScalarsComparable(v.l[FirstDifference(v.l, w.l)],
                               w.l[FirstDifference(v.l, w.l)])

SameValue(v, w) ==
    IF BothOf("list", v, w)
    THEN Len(v.l) = Len(w.l) /\ Differences(v.l, w.l) = {}
    ELSE ScalarsSame(v, w)

Before(v, w) ==
    IF BothOf("list", v, w)
    THEN IF Differences(v.l, w.l) = {} THEN Len(v.l) < Len(w.l)
         ELSE ScalarBefore(v.l[FirstDifference(v.l, w.l)],
                           w.l[FirstDifference(v.l, w.l)])
    ELSE ScalarBefore(v, w)

\* the ordering comparison an operator stands for
Ordering(op, v, w) ==
    CASE op = "lt" -> Before(v, w)
      [] op = "gt" -> Before(w, v)
      [] op = "lte" -> Before(v, w) \/ SameValue(v, w)
      [] op = "gte" -> Before(w, v) \/ SameValue(v, w)

OrderingOperators == {"gt", "gte", "lt", "lte"}

\* C21: GREATER_THAN, GREATER_THAN_OR_EQUAL, LESS_THAN and
\* LESS_THAN_OR_EQUAL, in both evaluators, return the ordering comparison of
\* the normalized value against the operand when the two can be ordered
\* (two numbers, two texts, two instants, two lists that differ first in
\* such a pair), and return False without raising when they cannot.
C21_OrderingOrFalse ==
    (Evaluated /\ Operator \in OrderingOperators /\ IsOk(Normalized)) =>
        IF OrderComparable(Normalized.v, Operand)
        THEN IF Ordering(Operator, Normalized.v, Operand)
             THEN IsTrue(result) ELSE IsFalse(result)
        ELSE IsFalse(result)

\* GREATER_THAN of a text value against a numeric operand has returned False
C21_Witness ==
    /\ Evaluated /\ Operator = "gt"
    /\ IsOk(Normalized) /\ Normalized.v.k = "str" /\ Operand.k = "int"
    /\ IsFalse(result)

\* the value and the operand are of different types (an int and a float
\* are both numbers)
MismatchedTypes(v, w) == ~BothNumbers(v, w) /\ v.k # w.k

\* C22: EQUALS and NOT_EQUALS, in both evaluators, never raise when the
\* normalized value and the operand are of mismatched types, and each of
\* them returns False in that case.
C22_MismatchIsFalse ==
    (/\ Evaluated /\ Operator \in {"eq", "ne"}
     /\ IsOk(Normalized) /\ MismatchedTypes(Normalized.v, Operand)) =>
        IsFalse(result)

\* two characters that are the same letter, whatever their case
SameLetter(c, d) == c = d \/ LowerChar(c) = d \/ c = LowerChar(d)

\* the text `part` stands in `text` at position p, ignoring letter case
StandsAt(part, text, p) ==
    /\ p + Len(part) - 1 <= Len(text)
    /\ \A i \in 1..Len(part) : SameLetter(part[i], text[p + i - 1])

SubstringIgnoringCase(part, text) ==
    \E p \in 1..(Len(text) + 1) : StandsAt(part, text, p)
PrefixIgnoringCase(part, text) == StandsAt(part, text, 1)

\* C23: in both evaluators CONTAINS is true exactly when the operand is a
\* substring of the normalized text value ignoring letter case, and
\* STARTS_WITH exactly when it is a prefix ignoring letter case; both return
\* False, without raising, when the normalized value is not text. (An
\* operand that is not text is no substring of a text: the call is not
\* true then, it raises.)
C23_TextOperators ==
    (Evaluated /\ Operator \in {"contains", "starts_with"} /\ IsOk(Normalized)) =>
        /\ IsTrue(result) <=>
              /\ Normalized.v.k = "str" /\ Operand.k = "str"
              /\ IF Operator = "contains"
                 THEN SubstringIgnoringCase(Operand.s, Normalized.v.s)
                 ELSE PrefixIgnoringCase(Operand.s, Normalized.v.s)
        /\ Normalized.v.k # "str" => IsFalse(result)
        /\ (Normalized.v.k = "str" /\ Operand.k = "str") => IsOk(result)

\* CONTAINS of an operand in capitals has matched a value in mixed case
C23_Witness ==
    /\ Evaluated /\ Operator = "contains"
    /\ IsOk(Normalized)
    /\ Normalized.v = PyStr(<<"A", "b">>) /\ Operand = PyStr(<<"A", "B">>)
    /\ IsTrue(result)

\* v is w, or is an element of w when w is a list
EqualsOrOccursIn(v, w) ==
    IF w.k = "list" THEN \E j \in 1..Len(w.l) : SameValue(v, w.l[j])
    ELSE SameValue(v, w)

\* C24: IN, in both evaluators and for all four shape combinations: when
\* the normalized value is a list, it is true iff some element of the list
\* equals the scalar operand or occurs in the operand list; when the
\* normalized value is a scalar, it is true iff it equals the scalar operand
\* or occurs in the operand list. It never raises.
C24_InByShape ==
    (Evaluated /\ Operator = "in" /\ IsOk(Normalized)) =>
        /\ IsOk(result)
        /\ result.v <=>
              IF Normalized.v.k = "list"
              THEN \E i \in 1..Len(Normalized.v.l) :
                      EqualsOrOccursIn(Normalized.v.l[i], Operand)
              ELSE EqualsOrOccursIn(Normalized.v, Operand)

\* IN of a list operand has matched a list value through its second element
C24_Witness ==
    /\ Evaluated /\ Operator = "in"
    /\ IsOk(Normalized)
    /\ Normalized.v = PyList(<<Sample.IdB, Sample.IdA>>)
    /\ Operand = PyList(<<PyInt(5), PyStr(<<"a">>)>>)
    /\ IsTrue(result)

----------------------------------------------------------------------------
(* Properties of the collection as built.                                  *)

\* C25: for any sequence of pages fetched while building a Tasks
\* collection, get_count() equals the number of Task records in the base
\* collection, that is the number of identifiers the collection iterates
\* over (iter(self.tasks)) and the filters range over.
C25_CountIsNumberOfRecords ==
    Called("get_count") => (IsOk(result) /\ result.v.i = Len(tasks))

\* C26: the identifier of every Task is the remote task's string id,
\* whichever way the Task was constructed: from an id string (with any "#"
\* removed), from a raw task record as done for each member of a Tasks
\* collection, or from an embedded subtask record passed as raw_task.
C26_IdentifierIsStringId ==
    /\ \A i \in 1..Len(tasks) : tasks[i].val.id = PyStr(tasks[i].val.task.id)
    /\ task # NoTask => task.id = PyStr(task.task.id)
    /\ \A t \in SubtaskTasks : t.id = PyStr(t.task.id)

\* C27: refreshing a Task re-fetches it: after post_custom_field with
\* reinitialize=True, or after add_tags, the Task's name, status and custom
\* fields are those of a record fetched from the remote after the mutation
\* was submitted, for Tasks constructed from an id string, from a raw
\* record, or with raw_task.
C27_RefreshRefetches ==
    (\/ Called("post_custom_field") /\ IsOk(result) /\ call.args[3]
     \/ Called("add_tags") /\ IsOk(result)) =>
        /\ fetches >= 1
        /\ task.name = remote.x.name
        /\ task.status = remote.x.status
        /\ task.custom_fields = CustomFields(remote.x.custom_fields)

\* the task records of the pages fetched, in fetch order
RECURSIVE FetchedTasks(_)
FetchedTasks(log) ==
    IF Len(log) = 0 THEN <<>>
    ELSE FetchedTasks(SubSeq(log, 1, Len(log) - 1)) \o log[Len(log)].tasks

FirstFetchOf(id, fetched) ==
    CHOOSE j \in 1..Len(fetched) :
        fetched[j].id = id /\ \A m \in 1..(j - 1) : fetched[m].id # id
LastFetchOf(id, fetched) ==
    CHOOSE j \in 1..Len(fetched) :
        fetched[j].id = id /\ \A m \in (j + 1)..Len(fetched) : fetched[m].id # id

\* the construction is over: Tasks(...) has returned or raised
ConstructionOver == pc \in {"built", "failed"}

\* the pages are requested as 0, 1, 2, ...
PagesInOrder ==
    pc # "idle" => \A i \in 1..Len(requests) : requests[i].page = i - 1

\* no page is requested after an empty one, and the construction ends with
\* the first empty page
StopsAtFirstEmptyPage ==
    /\ pc # "idle" =>
          \A i \in 1..Len(requests) : requests[i].tasks = <<>> => i = Len(requests)
    /\ ConstructionOver =>
          /\ Len(requests) > 0
          /\ requests[Len(requests)].tasks = <<>>

\* the collection holds every task fetched (a task fetched twice once, with
\* the record fetched last), in the order in which the tasks were fetched
HoldsEveryFetchedTask(fetched) ==
    /\ \A j \in 1..Len(fetched) : DictHas(tasks, fetched[j].id)
    /\ \A i \in 1..Len(tasks) :
          /\ \E j \in 1..Len(fetched) : fetched[j].id = tasks[i].key
          /\ tasks[i].val.task = fetched[LastFetchOf(tasks[i].key, fetched)]
    /\ \A a, b \in 1..Len(tasks) :
          a < b => FirstFetchOf(tasks[a].key, fetched) < FirstFetchOf(tasks[b].key, fetched)

C28_Safety ==
    /\ PagesInOrder
    /\ StopsAtFirstEmptyPage
    /\ ConstructionOver => HoldsEveryFetchedTask(FetchedTasks(requests))

\* C28: building a Tasks collection requests pages 0, 1, 2, ... in
\* strictly increasing order and stops at the first empty page; if the
\* remote eventually returns an empty page the construction terminates, and
\* the collection then contains every task of every page fetched before it,
\* in fetch order.
C28_PagedUntilEmpty ==
    /\ [](C28_Safety)
    /\ (pc = "building") ~> (pc = "built")

----------------------------------------------------------------------------
(* Properties of the module-level functions.                               *)

PostedTaskTo(type) == Called("post_task") /\ call.args[1] = "f" /\ ItemIs(type)

\* C29: post_task encodes a drop_down value as post_custom_field does, for
\* every supplied value: an integer-parsable value is passed through, an
\* option name is replaced by that option's ordinal, and a name that
\* matches no option is kept as the unresolved value rather than causing an
\* error.
C29_PostTaskEncodesAlike ==
    PostedTaskTo("drop_down") =>
        /\ IsOk(result)
        /\ posted.value =
              IF ParsesAsInt(Supplied) THEN Supplied
              ELSE IF Supplied \in OptionNames(Item.options)
              THEN PyInt(OptionNamed(Item.options, Supplied).orderindex)
              ELSE Supplied
        /\ post_custom_field(task, "f", Supplied) = Ok(posted.value)

\* the ids of the spaces and folders of a team's workspace
WorkspaceIds(t) ==
    {Workspace[t][i].id : i \in 1..Len(Workspace[t])}
    \cup UNION {{Workspace[t][i].folders[j].id :
                    j \in 1..Len(Workspace[t][i].folders)} :
                 i \in 1..Len(Workspace[t])}

\* every fetch of the call names the team of the call, or a space or a
\* folder of that team's workspace, and the call fetched the team's spaces
\* first
C30_FetchesUseParam ==
    Called("get_all_lists") =>
        /\ Len(requests) >= 1
        /\ requests[1].url = "team/space" /\ requests[1].id = call.args[1]
        /\ \A i \in 2..Len(requests) :
              /\ requests[i].url # "team/space"
              /\ requests[i].id \in WorkspaceIds(call.args[1])

\* a step that is a call of get_all_lists leaves team_id as it was
C30_TeamIdKept == Called("get_all_lists")' => team_id' = team_id

\* C30: get_all_lists(team_id_param) leaves the module-level team_id
\* unchanged: on normal return and on any exception raised while listing
\* spaces, folders or lists, team_id has the value it had before the call,
\* while every fetch made during the call uses team_id_param.
C30_TeamIdRestored == [](C30_FetchesUseParam) /\ [][C30_TeamIdKept]_vars

\* a call for another team than the module's has raised while listing the
\* folders of a space, and the module's team_id is the one it was
C30_Witness ==
    /\ Called("get_all_lists") /\ call.args[1] = "T2"
    /\ Raises(result, "Exception")
    /\ Len(requests) = 3
    /\ team_id = "T1"

====
